---- MODULE Spec2Model ----
(***************************************************************************)
(* A model of the fn_nas integration: the command channel of               *)
(* FlynasCoordinator (one SSH handle shared by every caller), its poll     *)
(* cycle and offline monitor (coordinator.py), and the disk collector's    *)
(* liveness-gated cache (disk_manager.py).                                 *)
(*                                                                         *)
(* The coordinator runs on one asyncio event loop: code between two awaits *)
(* is atomic.  Every action below resumes one task from the await it is    *)
(* suspended on, with the outcome of that await as its input, and runs the *)
(* code up to the task's next await (or its return).                       *)
(***************************************************************************)
EXTENDS Integers, Sequences, FiniteSets, TLC

\* ------------------------------------------------------------------ bounds
\* Sessions the remote host keeps open at a time: asyncssh.connect fails
\* while that many are open.
MaxSessions == 2

\* ------------------------------------------------------- program constants
\* run_command(self, command, retries=2)
Retries == 2
\* the channel keeps one handle, self.ssh
MaxConnections == 1

\* e.exit_status in [4, 32]
BenignExitCodes == {4, 32}
\* exit codes a remote command is given in the model
ExitCodes == {0, 1, 4, 32}

\* self.ssh is None
NoSession == 0
\* self.data is None
NoneData == [none |-> TRUE]
\* _async_update_data raised
Raised == [raised |-> TRUE]

\* The tasks that call the channel: the main poll cycle, the UPS cycle and a
\* control action (VMManager.control_vm / DockerManager.control_container).
\* The model runs the poll cycle together with one other caller: the UPS
\* cycle in Spec, a control action in CtlSpec.
Procs == {"poll", "ups", "ctl"}

\* The control actions: VMManager.control_vm, DockerManager.control_container,
\* SystemManager.reboot_system and shutdown_system.
CtlKinds == {"control_vm", "control_container", "reboot_system",
             "shutdown_system"}

\* What the caller of run_command does after it returns is an input of the
\* step in which it returns (`after`).  An online cycle awaits its collectors
\* one after the other (lines 310-320) and each collector awaits its
\* run_command calls one after the other; how many there are depends on what
\* the host answers, so the input says whether the cycle has another command
\* to run.  A control action reads nothing of itself before its run_command
\* has returned, so the input says which action it is.
After(p) ==
    CASE p = "poll" -> BOOLEAN
      [] p = "ups" -> {FALSE}
      [] OTHER -> CtlKinds

\* The host names ping_system answers for without a ping (line 162), and the
\* hosts a coordinator is configured for here.
LocalIdentifiers == {"localhost", "127.0.0.1"}
RemoteHost == "nas.lan"
Hosts == LocalIdentifiers \cup {RemoteHost}

ping_system_shortcut_first_only(h) == h = "localhost"

\* ping_system, lines 162-163: whether it returns True before any subprocess.
ping_system_shortcut(h) == h \in LocalIdentifiers

VARIABLES
    \* ---- FlynasCoordinator fields
    ssh,            \* self.ssh: the session the handle refers to, or NoSession
    ssh_closed,     \* self.ssh_closed
    use_sudo,       \* self.use_sudo
    root_password,  \* whether CONF_ROOT_PASSWORD is configured
    host,           \* self.host
    system_online,  \* self._system_online
    data,           \* self.data: NoneData or the snapshot the last cycle returned
    ping_task,      \* self._ping_task: "none", "running" or "done"
    \* ---- environment
    monitors,       \* _monitor_system_status loops that are running
    mon,            \* the await the loop is suspended on: "sleep", "ping",
                    \* or "none" when no loop runs
    host_up,        \* whether the host answers a probe of the loop
    setup,          \* async_delayed_setup (__init__.py:30-44): "start" when
                    \* the task is created, "ping" awaiting the probe of
                    \* line 33, "loop_ping" awaiting the probe of line 38,
                    \* "sleep" in the sleep of line 39, "refresh" from the
                    \* call of the first refresh on
    entry,          \* the config entry: "setting_up" until async_delayed_setup
                    \* has stored the coordinator in hass.data, then "loaded",
                    \* "unloaded" once async_unload_entry has removed it
    opened,         \* the newest session that is still referred to
    live,           \* the number of sessions opened and not closed
    \* ---- the tasks
    pc,             \* the await each task is suspended on ("idle": not running)
    attempt,        \* run_command's loop variable
    execs,          \* environment: how often the host was given the command
                    \* of the task's current run_command
    sess,           \* the session the awaited ssh.run was started on
    ret,            \* who awaits async_connect: "run" (run_command) or "cycle"
    \* ---- observation
    failMark,       \* `opened` when the task's current run_command last failed
    probers,        \* the tasks whose async_connect has run a command of
                    \* lines 81-109 on the session the handle refers to
    opener,         \* the task whose async_connect opened that session, or
                    \* "fixed" once that async_connect has returned True
    ev              \* what the step that led to this state did (see NoEvent)

chanvars == <<ssh, ssh_closed, use_sudo, root_password, host, system_online, data,
              ping_task, monitors, mon, host_up, setup, entry, opened, live,
              pc,
              attempt, execs, sess, ret, failMark, probers, opener, ev>>

VARIABLES
    \* ---- DiskManager fields
    first_run,             \* self.first_run
    disk_full_info_cache,  \* self.disk_full_info_cache: device -> record
    disk_io_stats_cache,   \* self.disk_io_stats_cache: device -> counters
    disk_status_cache,     \* self.disk_status_cache: device -> activity state
    \* ---- get_disks_info, suspended on a run_command
    dpc,          \* the command it awaits, or "idle"
    dret,         \* who asked for the power state: "activity" or "check"
    devices,      \* the devices of the lsblk listing still to process
    disk_info,    \* the record being built for the first of them
    cached_info,  \* cached_info (line 245)
    disks,        \* the records appended so far
    host_stat,    \* environment: the stat output get_disk_activity was given
                  \* for the device being processed, kept while
                  \* check_disk_active has its own read ahead
    prev_status,  \* observation: the activity state the device had in
                  \* disk_status_cache when this fetch came to it
    host_smart,   \* environment: the outputs the host's smartctl gives for
                  \* its disks, [info |-> a set, health |-> a set]
    smart,        \* observation: the smartctl outputs _get_full_disk_info
                  \* has read for the record being built (see NoSmart)
    dk,           \* observation: the record the step appended (see NoDiskEvent)
    host_lsblk,   \* environment: the outputs the host's lsblk gives, a set
    host_stats,   \* environment: the contents the stat file of a device of
                  \* the host takes, a set
    ignore_disks, \* configuration: config[CONF_IGNORE_DISKS]
    lsblk_output, \* lsblk_output (line 208), or NoListing
    ck,           \* observation: the stat output check_disk_active read in
                  \* the step, the counters cached before, and whether it
                  \* answered True (see NoCheck)
    expired       \* environment: device -> whether its entry of
                  \* disk_full_info_cache was written longer ago than the
                  \* cache timeout; the manager keeps no time of writing

diskvars == <<first_run, disk_full_info_cache, disk_io_stats_cache,
              disk_status_cache, dpc, dret, devices, disk_info, cached_info,
              disks, host_stat, prev_status, host_smart, smart, dk, ck,
              expired, host_lsblk, host_stats, ignore_disks, lsblk_output>>

VARIABLES
    \* ---- configuration
    enable_docker,  \* self.enable_docker
    \* ---- _async_update_data, suspended on a collector (lines 310-320)
    collected,      \* its local variables disks, system, ups_info, vms,
                    \* docker_containers
    \* ---- environment
    acts,           \* how many reboot commands the host has executed for it
    button,         \* whether the VMRebootButton of the machine was set up:
                    \* "unset" before the first refresh
    \* ---- observation
    degraded,       \* the collectors of the current (or last) online cycle
                    \* that failed
    listed,         \* `acts` when the listing held by `collected` was made
    looked          \* observation: what the last get_vm_title since the
                    \* listing was given (see NoLookup)

cyclevars == <<enable_docker, collected, acts, button, degraded, listed,
               looked>>

VARIABLES
    \* ---- UPSManager.parse_nut_ups_info
    status_str,     \* environment: the ups.status value of the upsc output,
                    \* a string as the sequence of its characters
    ups_status      \* ups_info["status"] (line 140), or NoStatus before

upsvars == <<status_str, ups_status>>

vars == <<chanvars, diskvars, cyclevars, upsvars>>

\* The state as one record, so that the code between two awaits composes.
Cur ==
    [ssh |-> ssh, ssh_closed |-> ssh_closed, use_sudo |-> use_sudo,
     root_password |-> root_password, host |-> host,
     system_online |-> system_online,
     data |-> data, ping_task |-> ping_task, monitors |-> monitors,
     mon |-> mon, host_up |-> host_up, setup |-> setup, entry |-> entry,
     opened |-> opened, live |-> live, pc |-> pc, attempt |-> attempt,
     execs |-> execs,
     sess |-> sess, ret |-> ret, failMark |-> failMark,
     probers |-> probers, opener |-> opener,
     ev |-> ev]

\* No command outcome, no cycle end.
NoExit == [kind |-> "none"]
NoCycle == [none |-> TRUE]

\* The observation of one step: the outcome of the command attempt that
\* ended in it (exit), a canary that failed in it, and whose they were (by),
\* what run_command returned in it
\* (returned), the end of a poll cycle in it (cycle: a snapshot or Raised)
\* and that cycle's probe, an arming of the monitor (armed), a canary result,
\* the return of a UPS cycle (ups), a reload request of the monitor, how a
\* control action ended (ctl: "true", "done", "raised" or "rejected"), an
\* exception caught by the except block of the cycle's online path (caught),
\* what async_unload_entry returned (unload: "true" or "false"), the answer
\* an await of async_connect after asyncssh.connect got (asked: which await
\* and what came back) and how an async_connect ended (connected: "direct"
\* for use_sudo = False, "prefix" for use_sudo = True, "failed"), and the
\* answer a probe of async_delayed_setup got (setup: which await and what
\* came back).
NoAnswer == [none |-> TRUE]
NoEvent ==
    [by |-> "none", exit |-> NoExit, returned |-> "none", cycle |-> NoCycle,
     probe |-> TRUE, armed |-> "none", canary |-> "none", ups |-> "none",
     reload |-> FALSE, ctl |-> "none", caught |-> FALSE, unload |-> "none",
     asked |-> NoAnswer, connected |-> "none", setup |-> NoAnswer]

\* The state a step starts from.
Step == [Cur EXCEPT !.ev = NoEvent]

\* Sessions are named in the order asyncssh.connect returned them, and only
\* the order of the names is read.  Renamed: each session still referred to
\* (by the handle, by a suspended ssh.run, by a failure mark) gets its rank
\* among those, so that a state does not depend on how many sessions were
\* opened and forgotten before.
Renamed(s) ==
    LET used == ({s.ssh} \cup {s.sess[p] : p \in Procs}
                         \cup {s.failMark[p] : p \in Procs}) \ {NoSession}
        rank(x) == Cardinality({y \in used : y <= x})
    IN  [s EXCEPT !.ssh = rank(s.ssh),
                  !.sess = [p \in Procs |-> rank(s.sess[p])],
                  !.failMark = [p \in Procs |-> rank(s.failMark[p])],
                  !.opened = Cardinality(used),
                  !.probers = IF s.ssh = NoSession THEN {} ELSE @,
                  !.opener = IF s.ssh = NoSession THEN "none" ELSE @]

Assigns(u) ==
    \E t \in {Renamed(u)} :
    /\ ssh' = t.ssh
    /\ ssh_closed' = t.ssh_closed
    /\ use_sudo' = t.use_sudo
    /\ root_password' = t.root_password
    /\ host' = t.host
    /\ system_online' = t.system_online
    /\ data' = t.data
    /\ ping_task' = t.ping_task
    /\ monitors' = t.monitors
    /\ mon' = t.mon
    /\ host_up' = t.host_up
    /\ setup' = t.setup
    /\ entry' = t.entry
    /\ opened' = t.opened
    /\ live' = t.live
    /\ pc' = t.pc
    /\ attempt' = t.attempt
    /\ execs' = t.execs
    /\ sess' = t.sess
    /\ ret' = t.ret
    /\ failMark' = t.failMark
    /\ probers' = t.probers
    /\ opener' = t.opener
    /\ ev' = t.ev

Becomes(u) == Assigns(u) /\ UNCHANGED <<upsvars, diskvars, cyclevars>>

\* A task resumes: Continue(after) is the state its code leaves, given the
\* input `after`.
Resumes(p, Continue(_)) ==
    \E after \in After(p) : Becomes(Continue(after))

\* ------------------------------------------------------------- snapshots
\* The default snapshot of lines 278-289 (with the docker_containers key)
\* and of lines 296-306 and 342-352 (without it).
OfflineSnapshot(docker) ==
    IF docker
    THEN [status |-> "off", system |-> "unknown", disks |-> <<>>, ups |-> {},
          vms |-> <<>>, docker_containers |-> <<>>]
    ELSE [status |-> "off", system |-> "unknown", disks |-> <<>>, ups |-> {},
          vms |-> <<>>]

\* The snapshot of lines 322-331: the sections are what the collectors gave.
OnlineSnapshot ==
    [status |-> "on", system |-> "collected", disks |-> <<"collected">>,
     ups |-> {"collected"}, vms |-> <<"collected">>,
     docker_containers |-> <<"collected">>]

\* ------------------------------------------------- the poll cycle's ends
\* A return of _async_update_data; the framework stores the value in self.data.
CycleReturn(s, snapshot) ==
    [s EXCEPT !.pc["poll"] = "idle", !.ev.cycle = snapshot,
              !.data = snapshot]

\* An exception leaves _async_update_data; self.data keeps its value.
CycleRaise(s) ==
    [s EXCEPT !.pc["poll"] = "idle", !.ev.cycle = Raised]

\* ArmMonitor without its guard.
ArmMonitorUnguarded(s) ==
    [s EXCEPT !.ping_task = "running", !.monitors = @ + 1, !.mon = "sleep",
              !.ev.armed = "started"]

\* if not self._ping_task or self._ping_task.done(): create_task(monitor)
ArmMonitor(s) ==
    IF s.ping_task # "running"
    THEN [s EXCEPT !.ping_task = "running", !.monitors = @ + 1,
                   !.mon = "sleep", !.ev.armed = "started"]
    ELSE [s EXCEPT !.ev.armed = "skipped"]

\* async_disconnect; closeOk = FALSE: self.ssh.close() raised.
async_disconnect(s, closeOk) ==
    IF s.ssh # NoSession /\ ~s.ssh_closed
    THEN IF closeOk
         THEN [s EXCEPT !.live = @ - 1, !.ssh_closed = TRUE,
                        !.ssh = NoSession]
         ELSE [s EXCEPT !.ssh = NoSession]
    ELSE s

\* if self.data and "system" in self.data: self.data["system"]["status"] = "off"
StatusOff(s) ==
    IF s.data # NoneData THEN [s EXCEPT !.data.status = "off"] ELSE s

\* The except block of the online path (lines 335-352).
CycleException(s) ==
    CycleReturn(ArmMonitor([s EXCEPT !.system_online = FALSE,
                                     !.ev.caught = TRUE]),
                OfflineSnapshot(FALSE))

\* ------------------------------------------------------------ run_command
\* A control action after its run_command returned.  control_vm and
\* control_container return True (vm_manager.py:64, docker_manager.py:52);
\* reboot_system and shutdown_system set the status of the snapshot
\* (system_manager.py:384-385, 399-400), where `"system" in
\* self.coordinator.data` raises while data is None.
control_return(s, kind) ==
    LET t == [s EXCEPT !.pc["ctl"] = "idle"]
    IN  IF kind \in {"control_vm", "control_container"}
        THEN [t EXCEPT !.ev.ctl = "true"]
        ELSE IF s.data = NoneData
        THEN [t EXCEPT !.ev.ctl = "raised"]
        ELSE [t EXCEPT !.ev.ctl = "done",
                       !.data.status = IF kind = "reboot_system"
                                       THEN "rebooting" ELSE "off"]

RECURSIVE run_command(_, _, _)
RECURSIVE run_command_loop(_, _, _)

\* run_command returns v to its caller, and the caller runs to its next await.
run_command_return(s, p, v, after) ==
    LET t == [s EXCEPT !.ev.returned = v, !.attempt[p] = 0,
                       !.execs[p] = 0, !.sess[p] = NoSession,
                       !.failMark[p] = 0]
    IN  CASE p = "poll" ->
               IF after
               THEN run_command(t, p, FALSE)
               ELSE CycleReturn(t, OnlineSnapshot)
          [] p = "ups" ->
               [t EXCEPT !.pc[p] = "idle", !.ev.ups = "info"]
          [] OTHER -> control_return(t, after)

\* run_command_failed keeping the handle.
run_command_failed_keeps(s, p, after) ==
    LET t == [s EXCEPT !.failMark[p] = s.opened]
    IN  IF s.attempt[p] = Retries - 1
        THEN run_command_return(t, p, "", after)
        ELSE run_command_loop([t EXCEPT !.attempt[p] = @ + 1], p, after)

\* The three except blocks of run_command that drop the handle (lines 206-224).
run_command_failed(s, p, after) ==
    LET t == [s EXCEPT !.ssh = NoSession, !.ssh_closed = TRUE,
                       !.failMark[p] = s.opened]
    IN  IF s.attempt[p] = Retries - 1
        THEN run_command_return(t, p, "", after)
        ELSE run_command_loop([t EXCEPT !.attempt[p] = @ + 1], p, after)

\* result = await self.ssh.run(command, check=True)   (lines 190-199)
run_command_exec(s, p, after) ==
    IF s.ssh = NoSession
    THEN run_command_failed(s, p, after)   \* AttributeError on None
    ELSE [s EXCEPT !.pc[p] = "exec", !.sess[p] = s.ssh, !.execs[p] = @ + 1]

\* async_connect returns ok to its caller r: run_command, or the poll cycle.
async_connect_return(s, p, r, ok, after) ==
    LET t == [s EXCEPT !.ret[p] = "run"]
    IN  IF r = "run"
        THEN IF ok THEN run_command_exec(t, p, after)
                   ELSE run_command_return(StatusOff(t), p, "", after)
        ELSE IF ok THEN run_command(t, p, after)
             ELSE IF t.data = NoneData
                  THEN CycleException(t)   \* line 295 subscripts None
                  ELSE CycleReturn(StatusOff(t), OfflineSnapshot(FALSE))

\* The except block of async_connect (lines 123-127).
async_connect_failed(s, p, after) ==
    async_connect_return([s EXCEPT !.ssh = NoSession, !.ssh_closed = TRUE,
                                   !.ev.connected = "failed"],
                         p, s.ret[p], FALSE, after)

\* The successful ends of async_connect (lines 83-85, 96-98, 110-122).
async_connect_ok(s, p, sudo, after) ==
    async_connect_return(
        [s EXCEPT !.use_sudo = sudo, !.ssh_closed = FALSE,
                  !.opener = IF @ = p THEN "fixed" ELSE @,
                  !.ev.connected = IF sudo THEN "prefix" ELSE "direct"],
        p, s.ret[p], TRUE, after)

\* await self.ssh.run(...) inside async_connect: the handle is read now.
async_connect_run(s, p, next, after) ==
    IF s.ssh = NoSession
    THEN async_connect_failed(s, p, after)   \* AttributeError on None
    ELSE [s EXCEPT !.pc[p] = next,
                   !.probers = @ \cup {p}]

\* async_connect, up to its first await.
async_connect(s, p, r, after) ==
    IF s.ssh = NoSession \/ s.ssh_closed
    THEN [s EXCEPT !.pc[p] = "connecting", !.ret[p] = r]
    ELSE async_connect_return(s, p, r, TRUE, after)

\* is_ssh_connected, up to its await: no handle means "not connected" at once.
run_command_loop(s, p, after) ==
    IF s.ssh = NoSession \/ s.ssh_closed
    THEN async_connect(s, p, "run", after)
    ELSE [s EXCEPT !.pc[p] = "canary", !.sess[p] = s.ssh]

\* run_command, up to its first await.
run_command(s, p, after) ==
    IF ~s.system_online
    THEN run_command_return(s, p, "", after)
    ELSE run_command_loop([s EXCEPT !.attempt[p] = 0], p, after)

\* --------------------------------------------------------------- actions
\* _async_update_data after the probe (lines 264-294).
AfterPing(s, is_online, closeOk, after) ==
    LET t == [s EXCEPT !.system_online = is_online, !.ev.probe = is_online]
    IN  IF ~is_online
        THEN IF t.data = NoneData
             THEN CycleRaise(t)   \* line 269 subscripts None, outside the try
             ELSE CycleReturn(
                      async_disconnect(
                          ArmMonitor([t EXCEPT !.data.status = "off"]), closeOk),
                      OfflineSnapshot(TRUE))
        ELSE async_connect(t, "poll", "cycle", after)

\* The timer (or a refresh request) starts _async_update_data: it awaits the
\* ping of ping_system(), or goes on at once when ping_system() returns
\* without one.
PollStart ==
    /\ pc["poll"] = "idle"
    /\ IF ping_system_shortcut(host)
       THEN Becomes(AfterPing(Step, TRUE, TRUE, TRUE))
       ELSE Becomes([Step EXCEPT !.pc["poll"] = "ping"])

PingDone ==
    /\ pc["poll"] = "ping"
    /\ \E is_online \in BOOLEAN, closeOk \in BOOLEAN :
           Becomes(AfterPing(Step, is_online, closeOk, TRUE))

\* UPSDataUpdateCoordinator._async_update_data
UpsStart ==
    /\ pc["ups"] = "idle"
    /\ pc["ctl"] = "idle"
    /\ IF ~system_online
       THEN Becomes([Step EXCEPT !.ev.ups = "{}"])
       ELSE Becomes(run_command(Step, "ups", FALSE))

\* control_start checking the action name after the command was issued.
control_start_late(s, kind, valid) ==
    IF kind \in {"control_vm", "control_container"} /\ ~valid
    THEN [run_command(s, "ctl", kind) EXCEPT !.ev.ctl = "rejected"]
    ELSE run_command(s, "ctl", kind)

\* A control action is called: control_vm and control_container raise
\* ValueError for an action name that is not in valid_actions
\* (vm_manager.py:58-60, docker_manager.py:45-47), then each action awaits
\* one run_command call.
control_start(s, kind, valid) ==
    IF kind \in {"control_vm", "control_container"} /\ ~valid
    THEN [s EXCEPT !.ev.ctl = "rejected"]
    ELSE run_command(s, "ctl", kind)

CtlStart ==
    /\ pc["ctl"] = "idle"
    /\ pc["ups"] = "idle"
    /\ \E valid \in BOOLEAN :
           Resumes("ctl", LAMBDA kind : control_start(Step, kind, valid))

\* The state a step of async_connect starts from when the await `at` of
\* task p got `answer`.
Answered(p, at, answer) ==
    [Step EXCEPT !.ev.asked = [by |-> p, at |-> at, answer |-> answer]]

\* asyncssh.connect(..., connect_timeout=5) returns a session or raises.
ConnectDone(p) ==
    /\ pc[p] = "connecting"
    /\ \/ /\ live < MaxSessions
          /\ Becomes([Step EXCEPT !.opened = @ + 1, !.ssh = opened + 1,
                                 !.live = @ + 1, !.pc[p] = "idu",
                                 !.probers = {p}, !.opener = p])
       \/ Resumes(p, LAMBDA after : async_connect_failed(Step, p, after))

\* is_root_user: ssh.run("id -u", timeout=3); an exception counts as not root.
IdUDone(p) ==
    /\ pc[p] = "idu"
    /\ \E root \in BOOLEAN :
         IF root
         THEN Resumes(p, LAMBDA after :
                  async_connect_ok(Answered(p, "idu", "root"), p, FALSE, after))
         ELSE Resumes(p, LAMBDA after :
                  async_connect_run(Answered(p, "idu", "user"), p, "sudo1", after))

\* ssh.run("echo password | sudo -S -i", timeout=5): done, or error / timeout.
Sudo1Done(p) ==
    /\ pc[p] = "sudo1"
    /\ \E done \in BOOLEAN :
         IF done
         THEN Resumes(p, LAMBDA after :
                  async_connect_run(Answered(p, "sudo1", "done"), p, "whoami1", after))
         ELSE Resumes(p, LAMBDA after :
                  async_connect_failed(Answered(p, "sudo1", "timeout"), p, after))

\* ssh.run("whoami") (no timeout): root, another user, or a transport error.
Whoami1Done(p) ==
    /\ pc[p] = "whoami1"
    /\ \E who \in {"root", "user", "error"} :
         CASE who = "root" ->
                Resumes(p, LAMBDA after :
                    async_connect_ok(Answered(p, "whoami1", who), p, FALSE, after))
           [] who = "user" ->
                IF root_password
                THEN Resumes(p, LAMBDA after :
                         async_connect_run(Answered(p, "whoami1", who), p, "sudo2", after))
                ELSE Resumes(p, LAMBDA after :
                         async_connect_ok(Answered(p, "whoami1", who), p, TRUE, after))
           [] OTHER ->
                Resumes(p, LAMBDA after :
                    async_connect_failed(Answered(p, "whoami1", who), p, after))

\* ssh.run("echo root_password | sudo -S -i", timeout=5)
Sudo2Done(p) ==
    /\ pc[p] = "sudo2"
    /\ \E done \in BOOLEAN :
         IF done
         THEN Resumes(p, LAMBDA after :
                  async_connect_run(Answered(p, "sudo2", "done"), p, "whoami2", after))
         ELSE Resumes(p, LAMBDA after :
                  async_connect_failed(Answered(p, "sudo2", "timeout"), p, after))

\* the second ssh.run("whoami") (no timeout)
Whoami2Done(p) ==
    /\ pc[p] = "whoami2"
    /\ \E who \in {"root", "user", "error"} :
         CASE who = "root" ->
                Resumes(p, LAMBDA after :
                    async_connect_ok(Answered(p, "whoami2", who), p, FALSE, after))
           [] who = "user" ->
                Resumes(p, LAMBDA after :
                    async_connect_ok(Answered(p, "whoami2", who), p, TRUE, after))
           [] OTHER ->
                Resumes(p, LAMBDA after :
                    async_connect_failed(Answered(p, "whoami2", who), p, after))

\* is_ssh_connected after ssh.run("echo 'connection_test'", timeout=2):
\* alive, or dead (asyncssh.Error, TimeoutError, wrong echo).
CanaryDone(p) ==
    /\ pc[p] = "canary"
    /\ \E alive \in BOOLEAN :
         IF alive
         THEN Resumes(p, LAMBDA after : run_command_exec(Step, p, after))
         ELSE Resumes(p, LAMBDA after : async_connect(
                  [Step EXCEPT !.ev.canary = "dead", !.ev.by = p],
                  p, "run", after))

\* The outcome of ssh.run(command, check=True): an exit code (0: the output
\* is returned; otherwise ProcessError) or a transport error (asyncssh.Error).
ExecOutcomes ==
    [kind : {"exit"}, status : ExitCodes] \cup {[kind |-> "ssherror"]}

\* IsBenign knowing one code only.
IsBenignOnly4(o) == o.kind = "exit" /\ o.status = 4

\* except ProcessError as e: if e.exit_status in [4, 32]: return ""
IsBenign(o) == o.kind = "exit" /\ o.status \in BenignExitCodes

\* run_command after ssh.run (lines 201-224).
AfterExec(s, p, o, after) ==
    LET t == [s EXCEPT !.ev.exit = o, !.ev.by = p]
    IN  IF o.kind = "exit" /\ o.status = 0
        THEN run_command_return(t, p, "out", after)
        ELSE IF IsBenign(o)
             THEN run_command_return(t, p, "", after)
             ELSE run_command_failed(t, p, after)

ExecDone(p) ==
    /\ pc[p] = "exec"
    /\ \E o \in ExecOutcomes :
           Resumes(p, LAMBDA after : AfterExec(Step, p, o, after))

\* monitor_probed going on after a successful probe.
monitor_probed_no_break(s, reachable) ==
    IF reachable
    THEN [s EXCEPT !.mon = "sleep", !.ev.reload = TRUE]
    ELSE [s EXCEPT !.mon = "sleep"]

\* _monitor_system_status after its probe returned (lines 251-257): on
\* success the reload is requested and the loop ends, else it sleeps again.
monitor_probed(s, reachable) ==
    IF reachable
    THEN [s EXCEPT !.monitors = @ - 1, !.ping_task = "done", !.mon = "none",
                   !.ev.reload = TRUE]
    ELSE [s EXCEPT !.mon = "sleep"]

\* _monitor_system_status with a sleep and its probe taken as one step,
\* whatever the host answers.
MonitorProbe ==
    /\ monitors > 0
    /\ \E reachable \in BOOLEAN :
         IF reachable
         THEN Becomes(monitor_probed(Step, TRUE))
         ELSE UNCHANGED vars

\* await asyncio.sleep(self._retry_interval) ends: the loop starts its probe.
MonitorSleepDone ==
    /\ mon = "sleep"
    /\ IF ping_system_shortcut(host)
       THEN Becomes(monitor_probed(Step, TRUE))
       ELSE Becomes([Step EXCEPT !.mon = "ping"])

\* await self.ping_system() returns what the host answers.
MonitorPingDone ==
    /\ mon = "ping"
    /\ Becomes(monitor_probed(Step, host_up))

\* The host goes down or comes up.
HostChanges ==
    /\ host_up \in BOOLEAN
    /\ Becomes([Step EXCEPT !.host_up = ~host_up])

\* ---------------------------------------------------- setup and teardown
\* async_delayed_setup after the first refresh returned: the coordinator is
\* stored in hass.data and the platforms are set up (__init__.py:44-67).
SetupDone ==
    /\ entry = "setting_up"
    /\ data # NoneData
    /\ Becomes([Step EXCEPT !.entry = "loaded"])

\* await coordinator.async_config_entry_first_refresh() (__init__.py:44):
\* the first poll cycle starts with its own probe (coordinator.py:263).
first_refresh(s) ==
    LET t == [s EXCEPT !.setup = "refresh"]
    IN  IF ping_system_shortcut(s.host)
        THEN AfterPing(t, TRUE, TRUE, TRUE)
        ELSE [t EXCEPT !.pc["poll"] = "ping"]

\* A probe of the setup that goes on to the first refresh whatever it
\* answers.
setup_probed_any(s, at, is_online, again) ==
    first_refresh([s EXCEPT !.ev.setup = [at |-> at, answer |-> is_online]])

\* A probe of async_delayed_setup answers (__init__.py:33-44): true goes on
\* to the first refresh, false to `again`.
setup_probed(s, at, is_online, again) ==
    LET t == [s EXCEPT !.ev.setup = [at |-> at, answer |-> is_online]]
    IN  IF is_online THEN first_refresh(t) ELSE [t EXCEPT !.setup = again]

\* The task of async_delayed_setup runs up to its first await: the ping of
\* ping_system(), or the connect of the first refresh when ping_system()
\* returns without one.
SetupStart ==
    /\ setup = "start"
    /\ IF ping_system_shortcut(host)
       THEN Becomes(setup_probed(Step, "ping", TRUE, "loop_ping"))
       ELSE Becomes([Step EXCEPT !.setup = "ping"])

\* The probe of line 33 answers; after false the loop of line 38 probes
\* again at once.
SetupPingDone ==
    /\ setup = "ping"
    /\ \E is_online \in BOOLEAN :
           Becomes(setup_probed(Step, "ping", is_online, "loop_ping"))

\* The probe of line 38 answers; after false the loop sleeps (line 39).
SetupLoopPingDone ==
    /\ setup = "loop_ping"
    /\ \E is_online \in BOOLEAN :
           Becomes(setup_probed(Step, "loop_ping", is_online, "sleep"))

\* asyncio.sleep(30) of line 39 ends and the loop probes again.
SetupSleepDone ==
    /\ setup = "sleep"
    /\ Becomes([Step EXCEPT !.setup = "loop_ping"])

\* self._ping_task.cancel() of a task that is not done.
CancelMonitor(s) ==
    IF s.ping_task = "running"
    THEN [s EXCEPT !.ping_task = "done", !.monitors = @ - 1, !.mon = "none"]
    ELSE s

\* async_unload_entry (__init__.py:86-114): nothing is done for an entry
\* that hass.data does not hold, or whose platforms do not unload.
async_unload_entry(s, unload_ok, closeOk) ==
    IF s.entry # "loaded"
    THEN [s EXCEPT !.ev.unload = "true"]
    ELSE IF ~unload_ok
    THEN [s EXCEPT !.ev.unload = "false"]
    ELSE [CancelMonitor(async_disconnect(s, closeOk))
              EXCEPT !.entry = "unloaded", !.ev.unload = "true"]

\* The integration is torn down: Home Assistant awaits async_unload_entry.
UnloadEntry ==
    /\ entry # "unloaded"
    /\ \E unload_ok \in BOOLEAN, closeOk \in BOOLEAN :
           Becomes(async_unload_entry(Step, unload_ok, closeOk))

\* ------------------------------------------------------------ DiskManager
\* What the host lists and answers.  The ignore list and the type filter
\* (lines 220-231) are taken as applied: a listing holds the devices that
\* pass them.
\* The block devices of a host and the type lsblk prints for each.
Devices == {"sda", "sdb", "loop0"}
TypeOf == [d \in Devices |-> IF d = "loop0" THEN "loop" ELSE "disk"]

\* A line of lsblk -dno NAME,TYPE with its two parts (lines 212-216).
Line(d) == [name |-> d, type |-> TypeOf[d]]

\* Outputs of lsblk: no line, or the line of sda.
LsblkOutputs == {<<>>, <<Line("sda")>>}

\* Outputs of lsblk on a host with more block devices: at most MaxListed
\* lines of different devices, in any order.
MaxListed == 2
ListedOutputs ==
    {out \in UNION {[1..n -> {Line(d) : d \in Devices}] : n \in 0..MaxListed} :
        \A i, j \in DOMAIN out : i # j => out[i] # out[j]}

\* config[CONF_IGNORE_DISKS], a string as the sequence of its device names
\* and commas: nothing, or lists that hold sdb.
NoIgnored == <<>>
IgnoreConfigs == {<<"sdb">>, <<"loop0", ",", "sdb">>}

\* str.split(",")
RECURSIVE split(_)
split(str) ==
    IF \A i \in DOMAIN str : str[i] # ","
    THEN <<str>>
    ELSE LET i == CHOOSE k \in DOMAIN str :
                      str[k] = "," /\ \A j \in 1..(k - 1) : str[j] # ","
         IN  <<SubSeq(str, 1, i - 1)>> \o split(SubSeq(str, i + 1, Len(str)))

\* ignore_list (line 220)
ignore_list(config) == split(config)

\* device in ignore_list (line 225)
Ignored(device, config) ==
    \E k \in DOMAIN ignore_list(config) : ignore_list(config)[k] = <<device>>

\* dev_info["type"] in ["disk", "nvme", "rom"] (line 229)
IsDiskTypeAny(type) == TRUE
IsDiskType(type) == type \in {"disk", "nvme", "rom"}

\* The devices the loop of lines 223-231 does not skip, in their order.
Kept(out, config) ==
    LET kept == SelectSeq(out, LAMBDA e : /\ ~Ignored(e.name, config)
                                          /\ IsDiskType(e.type))
    IN  [i \in DOMAIN kept |-> kept[i].name]

\* The local lsblk_output before the listing was read.
NoListing == <<[none |-> TRUE]>>

\* Outputs of smartctl: nothing (the command failed, run_command returned "")
\* or a reading; two readings tell a fresh record from a cached one.
Readings == {"r1", "r2"}
SmartOutputs == {""} \cup Readings

\* Outputs of smartctl -i: nothing, or a report whose fields carry a reading
\* and whose model line has one of the labels of the patterns of lines
\* 346-348, or "Product", which none of them matches.
ModelLabels == {"Device Model", "Model Family", "Model", "Model Number"}
InfoOutputs ==
    {[kind |-> "empty"]} \cup
    [kind : {"report"}, label : ModelLabels \cup {"Product"},
     reading : Readings]

\* The keys of health_map (lines 377-389), and a word that is none of them.
HealthWords ==
    {"PASSED", "PASS", "OK", "GOOD", "FAILED", "FAIL", "ERROR", "WARNING",
     "CRITICAL", "UNKNOWN", "NOT AVAILABLE"}
OtherWords == {"DEGRADED"}

\* A word as an output carries it: its letters, whether they are all in
\* upper case, and whether blanks surround it.
Words ==
    [word : HealthWords \cup OtherWords, upper : BOOLEAN, padded : BOOLEAN]
Plain(word) == [word |-> word, upper |-> TRUE, padded |-> FALSE]

\* Outputs of smartctl -H: nothing, a report with neither of the lines of
\* the patterns of lines 370-371 ("other"), or one with the line
\* "SMART overall-health self-assessment test result:" ("result") or
\* "SMART Health Status:" ("status") and the word after it.
HealthOutputs ==
    {[kind |-> "empty"], [kind |-> "other"]} \cup
    [kind : {"result", "status"}, raw : Words]

\* What the smartctl of a host gives: any of the outputs, or for a host
\* of ATA disks that pass or fail, nothing or a report with the lines
\* "Device Model:" and "SMART overall-health self-assessment test result:".
AnyOutputs == [info |-> InfoOutputs, health |-> HealthOutputs]
PlainOutputs ==
    [info |-> {o \in InfoOutputs :
                  o.kind = "report" => o.label = "Device Model"},
     health |-> {[kind |-> "empty"]} \cup
                {[kind |-> "result", raw |-> Plain(w)] :
                     w \in {"PASSED", "FAILED"}}]

\* Outputs of cat /sys/block/<device>/stat: nothing, fewer than 11 fields,
\* fields that are no integers, or the counters.  io_ticks takes a value on
\* each side of the two thresholds of check_disk_active.
StatOutputs ==
    {[kind |-> "empty"], [kind |-> "short"], [kind |-> "garbage"]} \cup
    [kind : {"stats"}, read_ios : {0, 1}, write_ios : {0, 1},
     in_flight : {0, 1}, io_ticks : {0, 50, 200}]

\* The stat file of a device that is read while it rests, after one read and
\* in the middle of a write, or not at all.
FewStats ==
    {[kind |-> "empty"],
     [kind |-> "stats", read_ios |-> 0, write_ios |-> 0, in_flight |-> 0,
      io_ticks |-> 0],
     [kind |-> "stats", read_ios |-> 1, write_ios |-> 0, in_flight |-> 1,
      io_ticks |-> 200]}

\* Outputs of cat /sys/block/<device>/device/state and of hdparm -C.
StateOutputs == {"running", "standby", "sleep", "unknown"}
HdparmOutputs == {"standby", "sleeping", "active/idle", "unknown"}

\* cached_info == {} ; disk_io_stats_cache.get(device) is None
NoRecord == [none |-> TRUE]
NoStats == [none |-> TRUE]

\* The observation of one step of the fetch: the record it appended to the
\* result, for which device, with which activity state, what cached_info
\* was, whether smartctl was run for it and whether its three runs all
\* returned nothing (failed), whether the fetch was the first one
\* (first_run), the activity state cached for the device before, and the
\* smartctl outputs the record was built from (outputs).
NoDiskEvent == [none |-> TRUE]

\* No read of check_disk_active in the step.
NoCheck == [none |-> TRUE]

\* No smartctl output read yet; else a record of info_output and, once it
\* is read, health_output.
NoSmart == [none |-> TRUE]

\* check_disk_active(device, window=30)
Window == 30

\* disk_info = {"device": device} with its status (lines 234-239); the detail
\* fields are not set yet.
NewDiskInfo(device, status) ==
    [device |-> device, status |-> status, model |-> "unset",
     serial |-> "unset", capacity |-> "unset", health |-> "unset",
     temperature |-> "unset", power_on_hours |-> "unset",
     attributes |-> "unset"]

\* The detail fields of a record.
Details(r) ==
    [model |-> r.model, serial |-> r.serial, capacity |-> r.capacity,
     health |-> r.health, temperature |-> r.temperature,
     power_on_hours |-> r.power_on_hours, attributes |-> r.attributes]

\* extract_value(text, patterns, default): the default for an empty text,
\* else what the reading holds.
extract_value(text, default) == IF text = "" THEN default ELSE text

\* extract_value(info_output, <the model patterns>) (lines 343-350)
extract_model(info_output) ==
    IF info_output.kind = "empty" THEN "unknown"
    ELSE IF info_output.label \in ModelLabels THEN info_output.reading
    ELSE "unknown"

\* extract_value(info_output, <one pattern>) for the serial number and the
\* capacity (lines 353-362)
extract_field(info_output) ==
    IF info_output.kind = "empty" THEN "unknown" ELSE info_output.reading

\* str.strip and str.upper on a word
strip(w) == [w EXCEPT !.padded = FALSE]
upper_kept(w) == w
upper(w) == [w EXCEPT !.upper = TRUE]

\* raw_health = extract_value(health_output, <patterns>, default="UNKNOWN")
\* (lines 367-374): the default for an empty text and for a text without a
\* match, else the match stripped.
raw_health(health_output) ==
    IF health_output.kind \in {"empty", "other"} THEN Plain("UNKNOWN")
    ELSE strip(health_output.raw)

\* health_map (lines 377-389)
health_map ==
    [w \in HealthWords |->
        CASE w \in {"PASSED", "PASS", "OK", "GOOD"} -> "good"
          [] w \in {"FAILED", "FAIL"} -> "failing"
          [] w = "ERROR" -> "error"
          [] w = "WARNING" -> "warning"
          [] w = "CRITICAL" -> "critical"
          [] w = "UNKNOWN" -> "unknown"
          [] w = "NOT AVAILABLE" -> "unavailable"]

\* health_map.get(key, default)
health_map_get(key, default) ==
    IF \E w \in DOMAIN health_map : key = Plain(w)
    THEN health_map[key.word]
    ELSE default

\* disk_info["health"] (line 392)
health(health_output) ==
    health_map_get(upper(strip(raw_health(health_output))), "unknown")

\* get_disk_power_state after the state file was read (lines 139-144):
\* "more" stands for going on to hdparm.
PowerFromState(state) ==
    IF state \in {"running", "active"} THEN "active"
    ELSE IF state \in {"standby", "sleep"} THEN state
    ELSE "more"

\* get_disk_power_state after hdparm -C (lines 148-155).
PowerFromHdparm(out) ==
    IF out = "standby" THEN "standby"
    ELSE IF out = "sleeping" THEN "sleep"
    ELSE IF out = "active/idle" THEN "active"
    ELSE "unknown"

\* get_disk_activity after the stat file was read (lines 173-198).
ActivityFromStat(out, cached_stats) ==
    IF out.kind # "stats" THEN "idle"
    ELSE IF out.in_flight > 0 THEN "active"
    ELSE IF /\ cached_stats # NoStats
            /\ \/ out.read_ios - cached_stats.read_ios > 0
               \/ out.write_ios - cached_stats.write_ios > 0
         THEN "active"
         ELSE "idle"

Counters(out) ==
    [read_ios |-> out.read_ios, write_ios |-> out.write_ios,
     in_flight |-> out.in_flight, io_ticks |-> out.io_ticks]

\* check_disk_active answering False at its first detection.
check_disk_active_first_idle(out, cached_stats) ==
    IF out.kind # "stats"
    THEN [active |-> TRUE, stats |-> cached_stats]
    ELSE [active |-> out.in_flight > 0, stats |-> Counters(out)]

\* check_disk_active up to its answer or to its power state query (lines
\* 45-113): whether it answers True here, and the counters it leaves cached.
check_disk_active(out, cached_stats) ==
    IF out.kind # "stats"
    THEN [active |-> TRUE, stats |-> cached_stats]
    ELSE IF out.in_flight > 0
    THEN [active |-> TRUE, stats |-> Counters(out)]
    ELSE IF cached_stats = NoStats
    THEN [active |-> TRUE, stats |-> Counters(out)]
    ELSE LET read_ios_diff == out.read_ios - cached_stats.read_ios
             write_ios_diff == out.write_ios - cached_stats.write_ios
             io_ticks_diff == out.io_ticks - cached_stats.io_ticks
         IN  IF read_ios_diff > 0 \/ write_ios_diff > 0 \/ io_ticks_diff > 100
             THEN [active |-> TRUE, stats |-> Counters(out)]
             ELSE IF io_ticks_diff > 0 /\ io_ticks_diff < Window * 1000
             THEN [active |-> TRUE, stats |-> Counters(out)]
             ELSE [active |-> FALSE, stats |-> Counters(out)]

\* The record of a device found not active (lines 277-297).
FromCache(info, cached) ==
    IF cached # NoRecord
    THEN [info EXCEPT !.model = cached.model, !.serial = cached.serial,
                      !.capacity = cached.capacity, !.health = cached.health,
                      !.temperature = cached.temperature,
                      !.power_on_hours = cached.power_on_hours,
                      !.attributes = cached.attributes]
    ELSE [info EXCEPT !.model = "not_detected", !.serial = "not_detected",
                      !.capacity = "not_detected", !.health = "not_detected",
                      !.temperature = "not_detected",
                      !.power_on_hours = "not_detected", !.attributes = "{}"]

\* The counters of the stat file only grow while the host is up: a read that
\* follows another one within the processing of one device shows no counter
\* below it (in_flight goes up and down).
NotBelow(out, before) ==
    (out.kind = "stats" /\ before # NoStats /\ before.kind = "stats") =>
        /\ out.read_ios >= before.read_ios
        /\ out.write_ios >= before.write_ios
        /\ out.io_ticks >= before.io_ticks

\* What the steps inside the processing of one device leave alone.
SameFetch == UNCHANGED <<first_run, devices, disks>>
SameCaches ==
    UNCHANGED <<disk_full_info_cache, disk_io_stats_cache, disk_status_cache>>

\* The loop of get_disks_info goes on to the next device, or ends and clears
\* first_run (lines 223, 325-331).
NextDisk(devs) ==
    /\ devices' = devs
    /\ disk_info' = NoRecord
    /\ cached_info' = NoRecord
    /\ dret' = "activity"
    /\ host_stat' = NoStats
    /\ prev_status' = "none"
    /\ smart' = NoSmart
    /\ IF devs = <<>>
       THEN dpc' = "idle" /\ first_run' = FALSE
       ELSE dpc' = "state" /\ UNCHANGED first_run

\* disks.append(disk_info) (lines 268, 299, 321)
Appended(info, probed, failed) ==
    /\ disks' = Append(disks, info)
    /\ ck' = NoCheck
    /\ dk' = [device |-> info.device, status |-> info.status,
              cached |-> cached_info, record |-> info, probed |-> probed,
              failed |-> failed, first |-> first_run, prev |-> prev_status,
              outputs |-> smart]
    /\ NextDisk(Tail(devices))

\* get_disks_info once the activity state is known (lines 239-272): the
\* state is cached, and the first run goes to the full fetch, later runs to
\* check_disk_active.
AfterStatus(status) ==
    /\ disk_info' = NewDiskInfo(Head(devices), status)
    /\ disk_status_cache' =
           [disk_status_cache EXCEPT ![Head(devices)] = status]
    /\ prev_status' = disk_status_cache[Head(devices)]
    /\ cached_info' = disk_full_info_cache[Head(devices)]
    /\ dpc' = IF first_run THEN "smart_i" ELSE "stat"
    /\ dk' = NoDiskEvent /\ ck' = NoCheck
    /\ SameFetch
    /\ UNCHANGED smart
    /\ UNCHANGED <<disk_full_info_cache, disk_io_stats_cache, dret>>

\* The caller of get_disk_power_state gets its answer: get_disk_activity
\* (lines 165-171) or check_disk_active (lines 116-123), which answers False
\* whatever the power state is.
AfterPowerState(power_state) ==
    IF dret = "activity"
    THEN IF power_state \in {"standby", "sleep"}
         THEN AfterStatus("sleeping") /\ UNCHANGED host_stat
         ELSE /\ dpc' = "actstat"
              /\ dk' = NoDiskEvent /\ ck' = NoCheck
              /\ SameFetch /\ SameCaches
              /\ UNCHANGED <<dret, disk_info, cached_info, host_stat,
                             prev_status, smart>>
    ELSE /\ Appended(FromCache(disk_info, cached_info), FALSE, FALSE)
         /\ SameCaches

\* get_disks_info is called (line 204) and awaits lsblk.
DiskFetchStart ==
    /\ dpc = "idle"
    /\ dpc' = "lsblk"
    /\ disks' = <<>>
    /\ lsblk_output' = NoListing
    /\ dk' = NoDiskEvent /\ ck' = NoCheck
    /\ SameCaches
    /\ UNCHANGED <<first_run, dret, devices, disk_info, cached_info,
                   host_stat, prev_status, smart>>
    /\ UNCHANGED <<upsvars, chanvars, cyclevars, host_smart, expired,
                   host_lsblk, host_stats, ignore_disks>>

\* lsblk -dno NAME,TYPE returns (lines 208-231).
LsblkDone ==
    /\ dpc = "lsblk"
    /\ \E out \in host_lsblk :
         /\ lsblk_output' = out
         /\ NextDisk(Kept(out, ignore_disks))
    /\ dk' = NoDiskEvent /\ ck' = NoCheck
    /\ SameCaches
    /\ UNCHANGED disks
    /\ UNCHANGED <<upsvars, chanvars, cyclevars, host_smart, expired,
                   host_lsblk, host_stats, ignore_disks>>

\* cat /sys/block/<device>/device/state returns (lines 138-144).
StateDone ==
    /\ dpc = "state"
    /\ \E out \in StateOutputs :
         IF PowerFromState(out) = "more"
         THEN /\ dpc' = "hdparm"
              /\ dk' = NoDiskEvent /\ ck' = NoCheck
              /\ SameFetch /\ SameCaches
              /\ UNCHANGED <<dret, disk_info, cached_info, host_stat,
                             prev_status, smart>>
         ELSE AfterPowerState(PowerFromState(out))
    /\ UNCHANGED <<upsvars, chanvars, cyclevars, host_smart, expired,
                   host_lsblk, host_stats, ignore_disks, lsblk_output>>

\* hdparm -C returns (lines 147-155).
HdparmDone ==
    /\ dpc = "hdparm"
    /\ \E out \in HdparmOutputs : AfterPowerState(PowerFromHdparm(out))
    /\ UNCHANGED <<upsvars, chanvars, cyclevars, host_smart, expired,
                   host_lsblk, host_stats, ignore_disks, lsblk_output>>

\* The stat file read by get_disk_activity returns (lines 171-198).
ActStatDone ==
    /\ dpc = "actstat"
    /\ \E out \in host_stats :
         /\ AfterStatus(ActivityFromStat(out,
                                         disk_io_stats_cache[Head(devices)]))
         /\ host_stat' = IF first_run THEN NoStats ELSE out
    /\ UNCHANGED <<upsvars, chanvars, cyclevars, host_smart, expired,
                   host_lsblk, host_stats, ignore_disks, lsblk_output>>

\* The stat file read by check_disk_active returns (lines 45-116, 272-273,
\* 302-304): an active device goes to the full fetch, another one to the
\* power state query.
StatDone ==
    /\ dpc = "stat"
    /\ \E out \in host_stats :
         LET device == Head(devices)
             r == check_disk_active(out, disk_io_stats_cache[device])
         IN  /\ NotBelow(out, host_stat)
             /\ disk_io_stats_cache' =
                    [disk_io_stats_cache EXCEPT ![device] = r.stats]
             /\ IF r.active
                THEN dpc' = "smart_i" /\ UNCHANGED dret
                ELSE dpc' = "state" /\ dret' = "check"
             /\ ck' = [out |-> out, cached |-> disk_io_stats_cache[device],
                       active |-> r.active]
    /\ dk' = NoDiskEvent
    /\ SameFetch
    /\ host_stat' = NoStats
    /\ UNCHANGED <<disk_full_info_cache, disk_status_cache, disk_info,
                   cached_info, prev_status, smart>>
    /\ UNCHANGED <<upsvars, chanvars, cyclevars, host_smart, expired,
                   host_lsblk, host_stats, ignore_disks, lsblk_output>>

\* What the three steps of _get_full_disk_info but the last leave alone.
SameProbe ==
    /\ dk' = NoDiskEvent /\ ck' = NoCheck
    /\ SameFetch /\ SameCaches
    /\ UNCHANGED <<dret, cached_info, host_stat, prev_status>>

\* smartctl -i returns (lines 340-363).
SmartIDone ==
    /\ dpc = "smart_i"
    /\ \E info_output \in host_smart.info :
         /\ disk_info' =
                [disk_info EXCEPT
                    !.model = extract_model(info_output),
                    !.serial = extract_field(info_output),
                    !.capacity = extract_field(info_output)]
         /\ smart' = [info |-> info_output]
    /\ dpc' = "smart_H"
    /\ SameProbe
    /\ UNCHANGED <<upsvars, chanvars, cyclevars, host_smart, expired,
                   host_lsblk, host_stats, ignore_disks, lsblk_output>>

\* smartctl -H returns (lines 366-392).
SmartHDone ==
    /\ dpc = "smart_H"
    /\ \E health_output \in host_smart.health :
         /\ disk_info' = [disk_info EXCEPT !.health = health(health_output)]
         /\ smart' = [info |-> smart.info, health |-> health_output]
    /\ dpc' = "smart_A"
    /\ SameProbe
    /\ UNCHANGED <<upsvars, chanvars, cyclevars, host_smart, expired,
                   host_lsblk, host_stats, ignore_disks, lsblk_output>>

\* smartctl -A returns (lines 395-538), the record is cached and appended
\* (lines 254, 268 and 306, 321).
SmartADone ==
    /\ dpc = "smart_A"
    /\ \E data_output \in SmartOutputs :
         LET info == [disk_info EXCEPT
                         !.temperature = extract_value(data_output, "unknown"),
                         !.power_on_hours =
                             extract_value(data_output, "unknown"),
                         !.attributes = extract_value(data_output, "{}")]
         IN  /\ disk_full_info_cache' =
                    [disk_full_info_cache EXCEPT ![info.device] = info]
             /\ expired' = [expired EXCEPT ![info.device] = FALSE]
             /\ Appended(info, TRUE,
                         /\ smart.info.kind = "empty"
                         /\ smart.health.kind = "empty"
                         /\ data_output = "")
    /\ UNCHANGED <<disk_io_stats_cache, disk_status_cache>>
    /\ UNCHANGED <<upsvars, chanvars, cyclevars, host_smart, host_lsblk,
                   host_stats, ignore_disks, lsblk_output>>

\* DiskManager.__init__ (lines 13-17), for a host whose smartctl gives the
\* outputs `outputs`, whose lsblk gives the listings `listings` and whose
\* stat files read as one of `stats`, under the configuration `ignored` of
\* the disks to ignore
DiskInitOf(outputs, listings, stats, ignored) ==
    /\ host_smart = outputs
    /\ host_lsblk = listings
    /\ host_stats = stats
    /\ ignore_disks = ignored
    /\ lsblk_output = NoListing
    /\ first_run = TRUE
    /\ disk_full_info_cache = [d \in Devices |-> NoRecord]
    /\ expired = [d \in Devices |-> FALSE]
    /\ disk_io_stats_cache = [d \in Devices |-> NoStats]
    /\ disk_status_cache = [d \in Devices |-> "none"]
    /\ host_stat = NoStats
    /\ prev_status = "none"
    /\ smart = NoSmart
    /\ dpc = "idle"
    /\ dret = "activity"
    /\ devices = <<>>
    /\ disk_info = NoRecord
    /\ cached_info = NoRecord
    /\ disks = <<>>
    /\ dk = NoDiskEvent
    /\ ck = NoCheck

\* The manager of a host with the one disk sda, nothing ignored.
DiskInitWith(outputs) ==
    DiskInitOf(outputs, LsblkOutputs, StatOutputs, NoIgnored)

\* The manager of a host of disks whose smartctl reports are plain.
DiskInit == DiskInitWith(PlainOutputs)

\* ------------------------------------------------- the online cycle's body
\* The collectors of lines 310-320, each taken as one step: a collector reads
\* and writes nothing of the coordinator between its run_command calls, so
\* what another task can see of it is its return.  The channel is what
\* answers: `o` says how the run_command calls of the collector went.
\*   "ok"     they returned the host's output
\*   "empty"  one returned "" (retries used up, or a benign exit status)
\*   "lost"   one returned "" because no session could be opened (line 185),
\*            which sets the status of the published snapshot (lines 186-187)
\*   "raise"  an exception was raised inside the collector's try block
Outcomes == {"ok", "empty", "lost", "raise"}

\* The virtual machine of the host, and the state virsh list reports for it:
\* the machine runs throughout.
VmName == "vm1"
HostVmState == "running"

\* The reboot commands the host executes in one behaviour.
MaxActions == 1

\* The local variables of _async_update_data before the collectors ran.
NoCollected ==
    [disks |-> <<>>, system |-> "unknown", ups |-> {}, vms |-> <<>>,
     docker_containers |-> <<>>]

\* A collector returned v to the cycle.
Returned(v) == [raised |-> FALSE, value |-> v]

\* DiskManager.get_disks_info: the list of records, [] when lsblk lists
\* nothing or an exception is caught (disk_manager.py:333-335).
get_disks_info(o) == Returned(IF o = "ok" THEN <<"sda">> ELSE <<>>)

\* SystemManager.get_system_info: the readings, or the "未知" sentinels
\* (system_manager.py:33-35, 63-70).
get_system_info(o) == Returned(IF o = "ok" THEN "collected" ELSE "unknown")

\* UPSManager.get_ups_info: the parsed record, or the record of "未知"
\* sentinels (ups_manager.py:20-30, 61-63, 67-77).
get_ups_info(o) == Returned(IF o = "ok" THEN {"collected"} ELSE {"unknown"})

\* get_vm_list letting its exception out.
get_vm_list_raises(o, state) ==
    CASE o = "ok" ->
             Returned(<<[name |-> VmName, state |-> state, title |-> ""]>>)
      [] o = "raise" -> [raised |-> TRUE]
      [] OTHER -> Returned(<<>>)

\* VMManager.get_vm_list: _parse_vm_list of the output of virsh list --all,
\* [] when the output is empty or an exception is caught (vm_manager.py:12-41).
get_vm_list(o, state) ==
    Returned(IF o = "ok"
             THEN <<[name |-> VmName, state |-> state, title |-> ""]>>
             ELSE <<>>)

\* Outputs of virsh dumpxml: a description without a <title> element, or
\* with one whose text, blanks around it put aside, is empty or a title.
\* NoXml: run_command returned "" or raised.
NoXml == [title |-> FALSE]
DumpXmls == {NoXml} \cup [title : {TRUE}, text : {"", "t1"}]

\* No get_vm_title since the listing; else whether its run_command failed
\* and the output it was given (xml).
NoLookup == [none |-> TRUE]

\* get_vm_title answering nothing where it has no title.
get_vm_title_no_fallback(o, xml, vm_name) ==
    Returned(IF o = "ok" /\ xml.title THEN xml.text ELSE "")

\* VMManager.get_vm_title (vm_manager.py:43-54): match.group(1).strip() when
\* the output has a <title> element, the name when it has none, when
\* run_command returned "" and when an exception is caught.
get_vm_title(o, xml, vm_name) ==
    Returned(IF o = "ok" /\ xml.title THEN xml.text ELSE vm_name)

\* DockerManager.get_containers (docker_manager.py:13-41).
get_containers(o) == Returned(IF o = "ok" THEN <<"c1">> ELSE <<>>)

\* The assignments of lines 310-320: the local variables after collector c
\* returned v.
Stored(c, v) ==
    CASE c = "disks" -> [collected EXCEPT !.disks = v]
      [] c = "system" -> [collected EXCEPT !.system = v]
      [] c = "ups" -> [collected EXCEPT !.ups = v]
      [] c = "vms" -> [collected EXCEPT !.vms = v]
      [] c = "titles" -> [collected EXCEPT !.vms[1].title = v]
      [] OTHER -> [collected EXCEPT !.docker_containers = v]

\* The snapshot of lines 322-331, built from the local variables.
CycleSnapshot(c) ==
    [status |-> "on", system |-> c.system, disks |-> c.disks, ups |-> c.ups,
     vms |-> c.vms, docker_containers |-> c.docker_containers]

\* The await that follows collector c, or "return" (line 333).
AfterTitles == IF enable_docker THEN "docker" ELSE "return"

NextAwait(c, locals) ==
    CASE c = "disks" -> "system"
      [] c = "system" -> "ups"
      [] c = "ups" -> "vms"
      [] c = "vms" -> IF locals.vms # <<>> THEN "titles" ELSE AfterTitles
      [] c = "titles" -> AfterTitles
      [] OTHER -> "return"

\* run_command could not connect: lines 186-187.
Lost(s, o) == IF o = "lost" THEN StatusOff(s) ELSE s

\* button.py:19-28 runs once, after the first refresh (__init__.py:44, 67):
\* the machine gets its button if the first snapshot lists it.
SetUp ==
    button' = IF button = "unset" /\ data' # NoneData
              THEN IF \E i \in DOMAIN data'.vms : data'.vms[i].name = VmName
                   THEN "yes" ELSE "no"
              ELSE button

\* The cycle resumes from collector c with `result`.  An exception that
\* leaves the collector reaches the except block of line 335.
Collect(c, result, o, fail) ==
    /\ pc["poll"] = c
    /\ IF result.raised
       THEN /\ Assigns(CycleException(Lost(Step, o)))
            /\ collected' = NoCollected
            /\ UNCHANGED degraded
       ELSE \E locals \in {Stored(c, result.value)} :
            /\ degraded' = IF fail THEN degraded \cup {c} ELSE degraded
            /\ IF NextAwait(c, locals) = "return"
               THEN /\ Assigns(CycleReturn(Lost(Step, o),
                                           CycleSnapshot(locals)))
                    /\ collected' = NoCollected
               ELSE /\ Assigns([Lost(Step, o) EXCEPT
                                    !.pc["poll"] = NextAwait(c, locals)])
                    /\ collected' = locals
    /\ SetUp
    /\ UNCHANGED <<upsvars, diskvars, enable_docker, acts>>

\* await self.async_connect() of line 294 returns.
CycleConnected ==
    /\ pc["poll"] = "connecting"
    /\ \E ok \in BOOLEAN :
          IF ok
          THEN /\ Assigns([Step EXCEPT !.pc["poll"] = "disks",
                                       !.ret["poll"] = "run"])
               /\ collected' = NoCollected
               /\ degraded' = {}
          ELSE /\ Assigns(async_connect_failed(Step, "poll", FALSE))
               /\ UNCHANGED <<collected, degraded>>
    /\ SetUp
    /\ UNCHANGED <<upsvars, diskvars, enable_docker, acts, listed, looked>>

DisksDone ==
    \E o \in Outcomes :
        Collect("disks", get_disks_info(o), o, o # "ok") /\ UNCHANGED <<listed, looked>>

SystemDone ==
    \E o \in Outcomes :
        Collect("system", get_system_info(o), o, o # "ok") /\ UNCHANGED <<listed, looked>>

UpsDone ==
    \E o \in Outcomes :
        Collect("ups", get_ups_info(o), o, o # "ok") /\ UNCHANGED <<listed, looked>>

\* The listing is what the host reports when it answers.
VmsDone ==
    \E o \in Outcomes :
        /\ Collect("vms", get_vm_list(o, HostVmState), o, o # "ok")
        /\ listed' = acts
        /\ looked' = NoLookup

\* for vm in vms: vm["title"] = await get_vm_title(vm["name"])   (one machine)
TitlesDone ==
    \E o \in Outcomes :
    \E xml \in IF o = "ok" THEN DumpXmls ELSE {NoXml} :
        /\ Collect("titles", get_vm_title(o, xml, collected.vms[1].name), o,
                   FALSE)
        /\ looked' = [failed |-> o # "ok", xml |-> xml]
        /\ UNCHANGED listed

DockerDone ==
    \E o \in Outcomes :
        Collect("docker", get_containers(o), o, o # "ok") /\ UNCHANGED <<listed, looked>>

\* ------------------------------------------- VMRebootButton.async_press
\* for vm in self.coordinator.data["vms"]: ... vm["state"] = "rebooting"
Rebooting(vms) ==
    [i \in DOMAIN vms |->
        IF vms[i].name = VmName THEN [vms[i] EXCEPT !.state = "rebooting"]
                                ELSE vms[i]]

\* control_vm returned True after run_command returned v (vm_manager.py:64-65,
\* button.py:77-86).
async_press_return(s, v) ==
    [s EXCEPT !.pc["ctl"] = "idle", !.ev.returned = v, !.ev.ctl = "true",
              !.data.vms = Rebooting(@)]

\* The button is pressed: control_vm(vm_name, "reboot") up to the await of
\* its command; run_command returns "" at once while the host is marked
\* offline (lines 179-180).
VmRebootPressed ==
    /\ pc["ctl"] = "idle"
    /\ button = "yes"
    /\ acts < MaxActions
    /\ IF system_online
       THEN Assigns([Step EXCEPT !.pc["ctl"] = "exec"])
       ELSE Assigns(async_press_return(Step, ""))
    /\ UNCHANGED <<upsvars, diskvars, cyclevars>>

\* The command of the press ends: the host executed `virsh reboot`, or
\* run_command gave up and returned "".
VmRebootDone ==
    /\ pc["ctl"] = "exec"
    /\ \E executed \in BOOLEAN :
          /\ Assigns(async_press_return(Step, IF executed THEN "out" ELSE ""))
          /\ acts' = IF executed THEN acts + 1 ELSE acts
    /\ UNCHANGED <<upsvars, diskvars, enable_docker, collected, button, degraded,
                   listed, looked>>

\* config.get(CONF_ENABLE_DOCKER, False)   (coordinator.py:33)
CycleInit(docker) ==
    /\ enable_docker = docker
    /\ collected = NoCollected
    /\ acts = 0
    /\ button = "unset"
    /\ degraded = {}
    /\ listed = 0
    /\ looked = NoLookup

\* FlynasCoordinator.__init__ (coordinator.py lines 23-67) for the host h,
\* with async_delayed_setup at `at`
ConstructedAt(h, at) ==
    /\ setup = at
    /\ ssh = NoSession
    /\ ssh_closed = TRUE
    /\ use_sudo = FALSE
    /\ root_password \in BOOLEAN
    /\ host = h
    /\ system_online = FALSE
    /\ data = NoneData   \* DataUpdateCoordinator.__init__ runs after line 41
    /\ ping_task = "none"
    /\ monitors = 0
    /\ mon = "none"
    /\ host_up = FALSE
    /\ entry = "setting_up"
    /\ opened = 0
    /\ live = 0
    /\ pc = [p \in Procs |-> "idle"]
    /\ attempt = [p \in Procs |-> 0]
    /\ execs = [p \in Procs |-> 0]
    /\ sess = [p \in Procs |-> NoSession]
    /\ ret = [p \in Procs |-> "run"]
    /\ failMark = [p \in Procs |-> 0]
    /\ probers = {}
    /\ opener = "none"
    /\ ev = NoEvent

\* The coordinator of the host h when its setup has seen the host answer and
\* the first refresh is due.
Constructed(h) == ConstructedAt(h, "refresh")

\* The coordinator of a host on the network.
ChannelInit == Constructed(RemoteHost)

\* ---- UPSManager.map_ups_status (ups_manager.py lines 211-236)

\* A string is the sequence of its characters.  WAIT is a status word that
\* is no key and holds none.
WAIT == <<"W", "A", "I", "T">>

\* "未知", the default of data.get("ups.status", ...) (line 140) and of
\* line 236. A value of the vocabulary is one glyph that no upsc output holds.
Unknown == <<"Unknown">>

\* status_map (lines 213-229), in the order of the literal, which is the
\* order the loop of line 232 takes its items in.
status_map ==
    << [key |-> <<"O", "L">>, value |-> <<"Online">>],
       [key |-> <<"O", "B">>, value |-> <<"OnBattery">>],
       [key |-> <<"L", "B">>, value |-> <<"LowBattery">>],
       [key |-> <<"H", "B">>, value |-> <<"HighBattery">>],
       [key |-> <<"R", "B">>, value |-> <<"ReplaceBattery">>],
       [key |-> <<"C", "H", "R", "G">>, value |-> <<"Charging">>],
       [key |-> <<"D", "I", "S", "C", "H", "R", "G">>, value |-> <<"Discharging">>],
       [key |-> <<"B", "Y", "P", "A", "S", "S">>, value |-> <<"Bypass">>],
       [key |-> <<"C", "A", "L">>, value |-> <<"Calibrating">>],
       [key |-> <<"O", "F", "F">>, value |-> <<"Off">>],
       [key |-> <<"O", "V", "E", "R">>, value |-> <<"Overload">>],
       [key |-> <<"T", "R", "I", "M">>, value |-> <<"Trimming">>],
       [key |-> <<"B", "O", "O", "S", "T">>, value |-> <<"Boosting">>],
       [key |-> <<"F", "S", "D">>, value |-> <<"ForcedShutdown">>],
       [key |-> <<"A", "L", "A", "R", "M">>, value |-> <<"Alarm">>] >>

\* key in status_str (line 233): the key is a substring.
IsIn(key, str) ==
    \E i \in 0..(Len(str) - Len(key)) : SubSeq(str, i + 1, i + Len(key)) = key

\* UPSManager.map_ups_status (lines 231-236)
map_ups_status(str) ==
    LET hits == {i \in DOMAIN status_map : IsIn(status_map[i].key, str)}
    IN  IF hits # {}
        THEN status_map[CHOOSE i \in hits : \A j \in hits : i <= j].value
        ELSE IF str # <<>> THEN str ELSE Unknown

\* The ups.status values of a host: nothing, the default of a missing line,
\* one word, or MaxWords words with a space between them, as upsc prints a
\* compound status.
MaxWords == 2
StatusWords == {status_map[i].key : i \in DOMAIN status_map} \cup {WAIT}
RECURSIVE Compound(_)
Compound(n) ==
    IF n = 1 THEN StatusWords
    ELSE LET shorter == Compound(n - 1)
         IN  shorter \cup
             {s \o <<" ">> \o w : s \in shorter, w \in StatusWords}
StatusStrings == {<<>>, Unknown} \cup Compound(MaxWords)

NoStatus == <<"none">>

\* UPSManager.__init__ and a host whose upsc gives one of `statuses`
UpsInitWith(statuses) ==
    /\ status_str \in statuses
    /\ ups_status = NoStatus

UpsInit == UpsInitWith({<<"O", "L">>})

\* parse_nut_ups_info, line 140
ParseStatus ==
    /\ ups_status = NoStatus
    /\ ups_status' = map_ups_status(status_str)
    /\ UNCHANGED <<status_str, chanvars, diskvars, cyclevars>>

Init == ChannelInit /\ DiskInit /\ CycleInit(FALSE) /\ UpsInit

Next ==
    \/ PollStart
    \/ PingDone
    \/ UpsStart
    \/ MonitorProbe
    \/ \E p \in Procs : ConnectDone(p)
    \/ \E p \in Procs : IdUDone(p)
    \/ \E p \in Procs : Sudo1Done(p)
    \/ \E p \in Procs : Whoami1Done(p)
    \/ \E p \in Procs : Sudo2Done(p)
    \/ \E p \in Procs : Whoami2Done(p)
    \/ \E p \in Procs : CanaryDone(p)
    \/ \E p \in Procs : ExecDone(p)

Spec == Init /\ [][Next]_vars

\* The control actions, run while poll cycles run.
CtlNext ==
    \/ PollStart
    \/ PingDone
    \/ CtlStart
    \/ \E p \in Procs : ConnectDone(p)
    \/ \E p \in Procs : IdUDone(p)
    \/ \E p \in Procs : Sudo1Done(p)
    \/ \E p \in Procs : Whoami1Done(p)
    \/ \E p \in Procs : Sudo2Done(p)
    \/ \E p \in Procs : Whoami2Done(p)
    \/ \E p \in Procs : CanaryDone(p)
    \/ \E p \in Procs : ExecDone(p)

CtlSpec == Init /\ [][CtlNext]_vars

\* The disk collector alone: every run_command of get_disks_info returns
\* what the host answers, or nothing.
DiskNext ==
    \/ DiskFetchStart
    \/ LsblkDone
    \/ StateDone
    \/ HdparmDone
    \/ ActStatDone
    \/ StatDone
    \/ SmartIDone
    \/ SmartHDone
    \/ SmartADone

DiskStart == Init /\ ~root_password

DiskSpec == DiskStart /\ [][DiskNext]_vars

\* Time passes between two fetches: the entry of a device, written at line
\* 305, becomes older than the cache timeout. Nothing in the manager reads
\* a clock, so no field of it changes.
TimeoutElapses ==
    /\ dpc = "idle"
    /\ \E d \in Devices :
         /\ disk_full_info_cache[d] # NoRecord
         /\ ~expired[d]
         /\ expired' = [expired EXCEPT ![d] = TRUE]
    /\ dk' = NoDiskEvent /\ ck' = NoCheck
    /\ UNCHANGED <<first_run, disk_full_info_cache, disk_io_stats_cache,
                   disk_status_cache, dpc, dret, devices, disk_info,
                   cached_info, disks, host_stat, prev_status, host_smart,
                   smart, host_lsblk, host_stats, ignore_disks, lsblk_output>>
    /\ UNCHANGED <<upsvars, chanvars, cyclevars>>

\* The fetches of a manager with the time between them.
CacheNext ==
    \/ DiskFetchStart
    \/ LsblkDone
    \/ StateDone
    \/ HdparmDone
    \/ ActStatDone
    \/ StatDone
    \/ SmartIDone
    \/ SmartHDone
    \/ SmartADone
    \/ TimeoutElapses

CacheSpec == DiskStart /\ [][CacheNext]_vars

\* The fetches of a manager on a host with more block devices, some of them
\* ignored by the configuration.
FilterStart ==
    /\ ChannelInit /\ ~root_password /\ CycleInit(FALSE) /\ UpsInit
    /\ \E ignored \in IgnoreConfigs :
         DiskInitOf(PlainOutputs, ListedOutputs, FewStats, ignored)

FilterSpec == FilterStart /\ [][DiskNext]_vars

\* The first fetch of a manager, whatever the host's smartctl gives: the
\* read of check_disk_active, which only later fetches come to, does not
\* return.
SmartNext ==
    \/ DiskFetchStart
    \/ LsblkDone
    \/ StateDone
    \/ HdparmDone
    \/ ActStatDone
    \/ SmartIDone
    \/ SmartHDone
    \/ SmartADone

SmartStart ==
    ChannelInit /\ ~root_password /\ DiskInitWith(AnyOutputs) /\ CycleInit(FALSE)
            /\ UpsInit

SmartSpec == SmartStart /\ [][SmartNext]_vars

\* The online cycle at the level of its collectors, with the button of one
\* virtual machine: the channel answers each collector as a whole.
CycleNext ==
    \/ PollStart
    \/ PingDone
    \/ CycleConnected
    \/ DisksDone
    \/ SystemDone
    \/ UpsDone
    \/ VmsDone
    \/ TitlesDone
    \/ DockerDone
    \/ VmRebootPressed
    \/ VmRebootDone

CycleStart ==
    \E docker \in BOOLEAN :
        ChannelInit /\ ~root_password /\ DiskInit /\ CycleInit(docker)
            /\ UpsInit

CycleSpec == CycleStart /\ [][CycleNext]_vars

\* The cycle and the monitor loop of a coordinator of any of the Hosts.
ProbeStart ==
    \E h \in Hosts :
        Constructed(h) /\ ~root_password /\ DiskInit /\ CycleInit(TRUE)
            /\ UpsInit

\* The channel with setup and teardown of the config entry, up to the
\* return of the teardown that removed the entry.
TeardownNext ==
    \/ entry # "unloaded" /\ Next
    \/ SetupDone
    \/ UnloadEntry

TeardownSpec == Init /\ [][TeardownNext]_vars

\* The setup of the entry from the creation of its task, for every host, and
\* the channel from the first refresh on.  No timer cycle, control action or
\* UPS cycle starts before: the entities and the UPS coordinator are made
\* after the first refresh (__init__.py:44-64).
SetupBegin ==
    /\ \E h \in Hosts : ConstructedAt(h, "start")
    /\ DiskInit /\ CycleInit(FALSE) /\ UpsInit

SetupNext ==
    \/ SetupStart
    \/ SetupPingDone
    \/ SetupLoopPingDone
    \/ SetupSleepDone
    \/ setup = "refresh" /\ Next

SetupSpec == SetupBegin /\ [][SetupNext]_vars

\* The monitor loop await by await, armed by the cycles of CycleNext; the
\* sleep ends after the retry interval and the probe ends by its answer or
\* by its timeout (ping -c 1 -W 1).
MonitorNext ==
    \/ PollStart
    \/ PingDone
    \/ CycleConnected
    \/ DisksDone
    \/ SystemDone
    \/ UpsDone
    \/ VmsDone
    \/ TitlesDone
    \/ DockerDone
    \/ MonitorSleepDone
    \/ MonitorPingDone
    \/ HostChanges

MonitorSpec ==
    /\ CycleStart
    /\ [][MonitorNext]_vars
    /\ WF_vars(MonitorSleepDone)
    /\ WF_vars(MonitorPingDone)

ProbeSpec == ProbeStart /\ [][MonitorNext]_vars

\* An await that carries a timeout ends, by its answer or by the timeout:
\* the probe (ping -c 1 -W 1), asyncssh.connect (connect_timeout=5), id -u
\* (timeout=3), the two sudo runs (timeout=5), the canary (timeout=2).  The
\* command of run_command and the two whoami runs carry none: they end when
\* the host answers, which nothing guarantees.
\* The status mapping alone, for every status of StatusStrings.
UpsMapStart ==
    /\ ChannelInit /\ ~root_password /\ DiskInit /\ CycleInit(FALSE)
    /\ UpsInitWith(StatusStrings)

UpsMapNext == ParseStatus

UpsMapSpec == UpsMapStart /\ [][UpsMapNext]_vars

FairSpec ==
    /\ Spec
    /\ WF_vars(PingDone)
    /\ \A p \in Procs :
          /\ WF_vars(ConnectDone(p))
          /\ WF_vars(IdUDone(p))
          /\ WF_vars(Sudo1Done(p))
          /\ WF_vars(Sudo2Done(p))
          /\ WF_vars(CanaryDone(p))

\* ---------------------------------------------------------------- claims
\* A command attempt that ended in failure: a non-benign exit code or a
\* transport error.
FailedExit(o) ==
    \/ o.kind = "ssherror"
    \/ o.kind = "exit" /\ o.status \notin {0, 4, 32}

BenignExit(o) == o.kind = "exit" /\ o.status \in {4, 32}

\* C1: every invocation of the poll cycle ends by returning a snapshot and
\* never raises, whatever the probe, the connect and the collectors do,
\* the first cycle after construction included.
C1_CycleNeverRaises == ev.cycle # Raised

\* C2: when the probe returns false the cycle returns the offline snapshot
\* (status off, no disks, empty UPS section, no VMs), starts no remote
\* operation, and exactly one monitor loop is scheduled when it completes.
C2_OfflineCycle ==
    [][(ev'.cycle # NoCycle /\ ~ev'.probe) =>
          /\ ev'.cycle # Raised
          /\ ev'.cycle.status = "off"
          /\ ev'.cycle.disks = <<>>
          /\ ev'.cycle.ups = {}
          /\ ev'.cycle.vms = <<>>
          /\ live' <= live
          /\ \A p \in Procs \ {"poll"} : pc'[p] = pc[p]
          /\ monitors' = 1]_vars

\* C3: after any sequence of poll cycles at most one monitor loop is
\* running; arming while a loop runs starts no second one.
C3_OneMonitor == monitors <= 1

\* The monitor was armed while its loop was running.
C3_ArmSkipped == ev.armed = "skipped" /\ monitors = 1

\* C4: the number of live sessions never exceeds the channel's maximum.
C4_PoolBound == live <= MaxConnections

\* C5: no two run calls execute their commands on the same session at the
\* same time.
C5_ExclusiveSession ==
    \A p, q \in Procs :
        (p # q /\ pc[p] = "exec" /\ pc[q] = "exec") => sess[p] # sess[q]

\* C6: a command attempt that fails (non-benign exit code, transport error)
\* drops the session: the handle is cleared and marked closed; the first
\* failure is followed by a reconnect and the retry runs on a session opened
\* after the failure; the second failure makes run return the empty string;
\* there are never more than Retries attempts.
C6_RetryOnNewSession ==
    /\ [](\A p \in Procs :
            /\ attempt[p] < 2
            /\ (pc[p] = "exec" /\ attempt[p] = 1) => sess[p] > failMark[p])
    /\ [][\A p \in Procs :
            (ev'.by = p /\ FailedExit(ev'.exit)) =>
                /\ ssh' = NoSession
                /\ ssh_closed'
                /\ IF attempt[p] = 0
                   THEN /\ pc'[p] = "connecting"
                        /\ attempt'[p] = 1
                        /\ ev'.returned = "none"
                   ELSE ev'.returned = ""]_vars

\* A second attempt failed and run gave up.
C6_GaveUp == FailedExit(ev.exit) /\ ev.returned = ""

\* C7: a command that exits with 4 or 32 makes run return the empty string
\* at once: the handle, its closed flag and the open sessions stay as they
\* were and the command is not run again.
C7_BenignExit ==
    [][\A p \in Procs :
          (ev'.by = p /\ BenignExit(ev'.exit)) =>
              /\ ev'.returned = ""
              /\ (ssh' = NoSession) = (ssh = NoSession)
              /\ ssh_closed' = ssh_closed
              /\ live' = live
              /\ attempt'[p] = 0
              /\ pc'[p] # "exec"
              /\ p # "poll" => pc'[p] = "idle"]_vars

\* A benign exit left a valid session behind.
C7_BenignSeen ==
    BenignExit(ev.exit) /\ ssh # NoSession /\ ~ssh_closed

\* C8: after a failed canary no command is executed on that session: run
\* is reconnecting (or has returned) when the step of the canary ends.
C8_NoExecOnDeadSession ==
    ev.canary = "dead" => pc[ev.by] # "exec"

\* C9: every run call, every connect and with them every cycle eventually
\* returns.
C9_EveryCallReturns ==
    \A p \in Procs : (pc[p] # "idle") ~> (pc[p] = "idle")
\* C10: a device that is Sleeping and has a cached full record gets its
\* record from the cache in every disk fetch: no smartctl is run for it and
\* the detail fields returned are those of the cached record.
C10_SleepingServedFromCache ==
    (dk # NoDiskEvent /\ dk.status = "sleeping" /\ dk.cached # NoRecord) =>
        /\ ~dk.probed
        /\ Details(dk.record) = Details(dk.cached)

\* C11: a device that has no cache entry gets the full probe in the fetch
\* that lists it, in the first fetch and in a later one, whatever its
\* activity state, and the record of the probe is the cache entry afterwards.
C11_ColdStartProbe ==
    (dk # NoDiskEvent /\ dk.cached = NoRecord) =>
        /\ dk.probed
        /\ disk_full_info_cache[dk.device] = dk.record

\* A Sleeping device first listed in a later fetch was probed.
C11_LateDeviceProbed ==
    /\ dk # NoDiskEvent
    /\ dk.cached = NoRecord
    /\ ~dk.first
    /\ dk.status = "sleeping"
    /\ dk.probed

\* C12: a device that was Sleeping in the previous fetch and is Active in
\* this one gets the full probe in this fetch, and the record of the probe
\* is its cache entry afterwards.
C12_WakeUpProbe ==
    (dk # NoDiskEvent /\ dk.prev = "sleeping" /\ dk.status = "active") =>
        /\ dk.probed
        /\ disk_full_info_cache[dk.device] = dk.record

\* C13: when the full fetch of a device fails (smartctl returns nothing,
\* three times) and the device has a cached record, the record returned
\* carries the cached detail fields and the cache entry keeps them.
C13_FailedProbeFallsBack ==
    (dk # NoDiskEvent /\ dk.probed /\ dk.failed /\ dk.cached # NoRecord) =>
        /\ Details(dk.record) = Details(dk.cached)
        /\ Details(disk_full_info_cache[dk.device]) = Details(dk.cached)

\* C14: the command of a control action, once the host was given it, is
\* given to the host once only, also when its session drops or it exits
\* non-zero.
C14_OneExecution == execs["ctl"] <= 1

\* C15: a control action whose command was not executed successfully
\* (run_command returned nothing) reports it: control_vm and
\* control_container return false or raise, reboot_system and
\* shutdown_system raise.
C15_FailureReported ==
    (ev.ctl \notin {"none", "rejected"} /\ ev.returned = "") =>
        ev.ctl \in {"false", "raised"}

\* C16: control_vm and control_container called with an action name that is
\* not valid are rejected before anything is done: no command is issued, no
\* session is opened or dropped, the snapshot and every task stay as they
\* were.
C16_InvalidRejected ==
    [][ev'.ctl = "rejected" =>
          /\ ev'.returned = "none"
          /\ UNCHANGED <<ssh, ssh_closed, use_sudo, system_online, data,
                         ping_task, monitors, opened, live, pc, attempt,
                         execs, sess, ret, failMark>>]_vars

\* An invalid action name was rejected while the host was online and a
\* session was open.
C16_RejectedOnline ==
    ev.ctl = "rejected" /\ system_online /\ ssh # NoSession /\ ~ssh_closed

\* The snapshot lists the virtual machine, and the state it shows for it.
VmShown(snapshot) == snapshot # NoneData /\ snapshot.vms # <<>>

VmState(snapshot) == snapshot.vms[1].state

\* C17: when the reboot command of a press was executed and control_vm
\* returned True, the machine's state in the current snapshot is "rebooting"
\* in that step; a step in which no cycle publishes leaves it so; and a
\* cycle that publishes a state for the machine while "rebooting" is shown
\* publishes a listing made after the last reboot command was executed.
C17_RebootingUntilFreshListing ==
    [][/\ (pc["ctl"] = "exec" /\ ev'.ctl = "true" /\ ev'.returned # ""
              /\ VmShown(data))
          => (VmShown(data') /\ VmState(data') = "rebooting")
       /\ (VmShown(data) /\ VmState(data) = "rebooting" /\ ev'.cycle = NoCycle)
          => (VmShown(data') /\ VmState(data') = "rebooting")
       /\ (VmShown(data) /\ VmState(data) = "rebooting"
              /\ ev'.cycle # NoCycle /\ ev'.cycle # Raised
              /\ ev'.cycle.vms # <<>>)
          => listed = acts]_vars

\* The awaits of the online path after the connect, and the collectors that
\* run in a cycle.
CollectorAwaits == {"disks", "system", "ups", "vms", "titles", "docker"}

CollectorsRun ==
    {"disks", "system", "ups", "vms"}
        \cup (IF enable_docker THEN {"docker"} ELSE {})

\* The section of collector c in a snapshot holds its default values.
SectionDefault(snapshot, c) ==
    CASE c = "disks" -> snapshot.disks = <<>>
      [] c = "system" -> snapshot.system = "unknown"
      [] c = "ups" -> snapshot.ups = {"unknown"}
      [] c = "vms" -> snapshot.vms = <<>>
      [] OTHER -> snapshot.docker_containers = <<>>

\* The section of collector c in a snapshot holds what the host answered.
SectionCollected(snapshot, c) ==
    CASE c = "disks" -> snapshot.disks = <<"sda">>
      [] c = "system" -> snapshot.system = "collected"
      [] c = "ups" -> snapshot.ups = {"collected"}
      [] c = "vms" -> /\ Len(snapshot.vms) = 1
                      /\ snapshot.vms[1].name = VmName
                      /\ snapshot.vms[1].state = HostVmState
      [] OTHER -> snapshot.docker_containers = <<"c1">>

\* C19: in an online cycle no step taken from a collector's await ends in
\* the except block or raises, whatever the collectors' commands did; when
\* the cycle returns from there it publishes an online snapshot in which the
\* section of each collector that failed holds its default values and the
\* section of every other collector holds the collected data.
C19_CollectorFailureContained ==
    [][pc["poll"] \in CollectorAwaits =>
          /\ ~ev'.caught
          /\ ev'.cycle # Raised
          /\ ev'.cycle # NoCycle =>
                /\ ev'.cycle.status = "on"
                /\ data' = ev'.cycle
                /\ \A c \in CollectorsRun :
                      IF c \in degraded'
                      THEN SectionDefault(ev'.cycle, c)
                      ELSE SectionCollected(ev'.cycle, c)]_vars

\* A cycle published a snapshot in which the system collector alone failed.
C19_OneSectionDefaulted ==
    /\ ev.cycle # NoCycle
    /\ ev.cycle # Raised
    /\ ev.cycle.status = "on"
    /\ degraded = {"system"}
    /\ ev.cycle.system = "unknown"
    /\ ev.cycle.disks = <<"sda">>
    /\ ev.cycle.vms # <<>>

\* C20: when an exception is caught in the online path of a cycle, the cycle
\* returns the offline default snapshot (the one a failed probe yields, lines
\* 278-289), the host is marked offline and a monitor loop is running when
\* the cycle completes.
C20_ExceptionGoesOffline ==
    ev.caught =>
        /\ ev.cycle = OfflineSnapshot(TRUE)
        /\ ~system_online
        /\ ping_task = "running"
        /\ monitors >= 1

\* C21: while the host is marked offline no caller touches the command
\* channel: a step taken while it is marked offline opens no session and
\* starts no remote operation (no connect, no probe of the session, no
\* command), a run_command that returns in it returns "", and a UPS cycle
\* that ends in it returns the empty record.
C21_OfflineChannelUntouched ==
    [][(~system_online /\ ~system_online') =>
          /\ live' <= live
          /\ \A p \in Procs : pc'[p] \in {pc[p], "idle", "ping"}
          /\ ev'.returned \in {"none", ""}
          /\ ev'.ups \in {"none", "{}"}]_vars

\* C22: every offline default snapshot a cycle returns, whichever path
\* produces it (probe failure, connect failure, except block), is the same
\* record: the same sections with the same sentinel values as the one of
\* the probe-failure path.
C22_OneOfflineSnapshot ==
    (ev.cycle # NoCycle /\ ev.cycle # Raised /\ ev.cycle.status = "off") =>
        /\ DOMAIN ev.cycle = DOMAIN OfflineSnapshot(TRUE)
        /\ ev.cycle = OfflineSnapshot(TRUE)

\* C23: the monitor loop starts a probe only when a sleep of the retry
\* interval has ended and sleeps again after a probe that failed; a reload
\* is requested only in the step in which a probe succeeded, and the loop
\* ends in that step, so that it requests one reload; and a loop that is
\* armed requests the reload eventually unless the host is unreachable at
\* some later moment.
C23_MonitorLoop ==
    /\ [][/\ (mon' = "ping" /\ mon # "ping") => mon = "sleep"
          /\ (mon = "ping" /\ mon' # "ping" /\ ~ev'.reload) => mon' = "sleep"
          /\ ev'.reload =>
                /\ mon = "ping"
                /\ host_up
                /\ mon' = "none"
                /\ monitors' = monitors - 1
                /\ ping_task' = "done"]_vars
    /\ (mon # "none") ~> (ev.reload \/ ~host_up)

\* The loop requested the reload and ended.
C23_ReloadRequested ==
    ev.reload /\ mon = "none" /\ monitors = 0 /\ ping_task = "done"

\* C24: when async_unload_entry has returned, no monitor loop of the
\* coordinator is running and the coordinator holds no open session,
\* whether setup had completed or not and whether the platforms unloaded
\* or not.
C24_TeardownLeavesNothing ==
    ev.unload # "none" =>
        /\ monitors = 0
        /\ ping_task # "running"
        /\ (ssh = NoSession \/ ssh_closed)

\* C25: a coordinator whose host is a loopback identifier never starts a
\* ping, neither in a cycle nor in the monitor loop, and every probe it
\* makes answers true.
C25_LoopbackProbe ==
    host \in {"localhost", "127.0.0.1"} =>
        /\ pc["poll"] # "ping"
        /\ mon # "ping"
        /\ ev.probe

\* The monitor loop of a loopback host has requested the reload after one
\* sleep, and a cycle of such a host has ended.
C25_LoopbackProbed ==
    /\ host = "127.0.0.1"
    /\ ev.reload
    /\ data # NoneData

\* The normalized health value of each known health word.
C26_Normalized ==
    [w \in {"PASSED", "PASS", "OK", "GOOD", "FAILED", "FAIL", "ERROR",
            "WARNING", "CRITICAL", "UNKNOWN", "NOT AVAILABLE"} |->
        IF w \in {"PASSED", "PASS", "OK", "GOOD"} THEN "good"
        ELSE IF w \in {"FAILED", "FAIL"} THEN "failing"
        ELSE IF w = "ERROR" THEN "error"
        ELSE IF w = "WARNING" THEN "warning"
        ELSE IF w = "CRITICAL" THEN "critical"
        ELSE IF w = "UNKNOWN" THEN "unknown"
        ELSE "unavailable"]

\* C26: the record built from the smartctl reports of a disk has the model
\* the report's model line carries, and its health is the normalized value
\* of the reported health word when the word, in any case, is a known one,
\* and unknown for any other word or when no word is reported; so an
\* active disk reported as model M and PASSED gets model M and health good.
C26_HealthNormalized ==
    (dk # NoDiskEvent /\ dk.probed) =>
        LET i == dk.outputs.info
            h == dk.outputs.health
            reported == h.kind \in {"result", "status"}
        IN  /\ (i.kind = "report" /\ i.label \in
                    {"Device Model", "Model Family", "Model", "Model Number"})
                    => dk.record.model = i.reading
            /\ (reported /\ h.raw.word \in DOMAIN C26_Normalized)
                    => dk.record.health = C26_Normalized[h.raw.word]
            /\ (reported /\ h.raw.word \notin DOMAIN C26_Normalized)
                    => dk.record.health = "unknown"
            /\ ~reported => dk.record.health = "unknown"

\* An active disk whose report carries "Device Model: r1" and the health
\* word "Passed" has got its record.
C26_PassedDisk ==
    /\ dk # NoDiskEvent
    /\ dk.probed
    /\ dk.status = "active"
    /\ dk.outputs.info = [kind |-> "report", label |-> "Device Model",
                          reading |-> "r1"]
    /\ dk.outputs.health.kind = "result"
    /\ dk.outputs.health.raw =
           [word |-> "PASSED", upper |-> FALSE, padded |-> TRUE]
    /\ dk.record.model = "r1"
    /\ dk.record.health = "good"

\* The awaits of lines 310-320 in their order, and the collectors the cycle
\* has called when it is suspended on one of them: each is called when the
\* await before it has returned.
CollectorOrder == <<"disks", "system", "ups", "vms", "titles", "docker">>

Started ==
    {CollectorOrder[i] : i \in {j \in DOMAIN CollectorOrder :
        \E k \in DOMAIN CollectorOrder :
            CollectorOrder[k] = pc["poll"] /\ j <= k}}

\* C27: while an online cycle awaits a collector, every collector of the
\* cycle has been started; and a step publishes the snapshot of an online
\* cycle only from the last await, when no collector is left to run.
C27_CollectorsConcurrent ==
    /\ [](pc["poll"] \in CollectorAwaits => CollectorsRun \subseteq Started)
    /\ [][(ev'.cycle # NoCycle /\ ev'.cycle # Raised /\ ev'.cycle.status = "on")
             => /\ pc["poll"] = (IF enable_docker THEN "docker"
                                 ELSE IF collected.vms # <<>> /\ pc["poll"] # "vms"
                                      THEN "titles" ELSE "vms")
                /\ pc'["poll"] = "idle"]_vars

\* C28: in the state an offline cycle ends in (its probe failed and it
\* returned a snapshot) the handle is cleared and no session is open.
C28_OfflineCycleDisconnects ==
    (ev.cycle # NoCycle /\ ev.cycle # Raised /\ ~ev.probe) =>
        /\ ssh = NoSession
        /\ live = 0

\* C29: an await of async_connect after asyncssh.connect never ends the
\* connect in failure, whatever it got; the connect ends in direct mode
\* exactly on the answer root (of id -u, or of whoami after an elevation),
\* and in prefix mode only when whoami named another user after the last
\* elevation that is configured.
C29_PrivilegeMode ==
    ev.asked # NoAnswer =>
        /\ ev.connected # "failed"
        /\ ev.asked.answer = "root" <=> ev.connected = "direct"
        /\ ev.connected = "prefix" =>
               /\ ev.asked.answer = "user"
               /\ \/ ev.asked.at = "whoami2"
                  \/ ev.asked.at = "whoami1" /\ ~root_password
        /\ ev.asked.at \in {"sudo2", "whoami2"} => root_password

\* C30: the commands of at most one async_connect run on a session; while
\* the handle refers to a session whose own async_connect has returned, a
\* step that keeps it leaves use_sudo as it is; and a session that is
\* marked open has had its own async_connect return.
C30_ModeFixedPerSession ==
    /\ [](Cardinality(probers) <= 1)
    /\ [][(opener = "fixed" /\ opener' = "fixed") => use_sudo' = use_sudo]_vars
    /\ []((ssh # NoSession /\ ~ssh_closed) => opener = "fixed")

\* C31: a step changes the published snapshot only by ending a cycle with
\* a new snapshot or by the update of a control action, and the published
\* snapshot never shows status off together with a disk list.
C31_SnapshotReplacedOnly ==
    /\ [][data' # data =>
             \/ ev'.cycle # NoCycle /\ ev'.cycle # Raised /\ data' = ev'.cycle
             \/ ev'.ctl = "done"]_vars
    /\ []((data # NoneData /\ data.status = "off") => data.disks = <<>>)

\* C32: check_disk_active, given readable counters, answers active when
\* I/O is in flight, when the read or write count has grown since the
\* cached counters, or when the busy time has grown by more than 100 ms;
\* with none of these and cached counters it does not answer active (it
\* goes on to the power state and answers inactive); with no cached
\* counters (the first read of the device) it answers active.
C32_LivenessCheck ==
    (ck # NoCheck /\ ck.out.kind = "stats") =>
        LET first == ck.cached = NoStats
            grown == /\ ~first
                     /\ \/ ck.out.read_ios > ck.cached.read_ios
                        \/ ck.out.write_ios > ck.cached.write_ios
                        \/ ck.out.io_ticks - ck.cached.io_ticks > 100
        IN  /\ ck.out.in_flight > 0 => ck.active
            /\ grown => ck.active
            /\ first => ck.active
            /\ (~first /\ ck.out.in_flight = 0 /\ ~grown) => ~ck.active

\* C33: the title of the machine in the snapshot an online cycle publishes
\* is the text of the <title> element its lookup was given, and the
\* machine's name when the lookup's command failed or its output had no
\* <title> element.
C33_TitleOrName ==
    (ev.cycle # NoCycle /\ ev.cycle # Raised /\ ev.cycle.status = "on"
        /\ ev.cycle.vms # <<>>) =>
        /\ looked # NoLookup
        /\ ev.cycle.vms[1].title =
               IF ~looked.failed /\ looked.xml.title
               THEN looked.xml.text
               ELSE ev.cycle.vms[1].name

\* A cycle has published the machine under its name after a lookup whose
\* command failed.
C33_FellBackToName ==
    /\ ev.cycle # NoCycle /\ ev.cycle # Raised /\ ev.cycle.status = "on"
    /\ ev.cycle.vms # <<>>
    /\ looked # NoLookup
    /\ looked.failed
    /\ ev.cycle.vms[1].title = VmName

\* C34: at the end of every disk fetch no entry of the full-record cache is
\* older than the cache timeout, unless its device is sleeping; the expired
\* entry of a sleeping device is what the fetch serves, without a probe.
C34_ExpiredEvicted ==
    /\ [][(dpc # "idle" /\ dpc' = "idle") =>
             \A d \in Devices :
                 (expired'[d] /\ disk_full_info_cache'[d] # NoRecord) =>
                     disk_status_cache'[d] = "sleeping"]_vars
    /\ [](  (/\ dk # NoDiskEvent
             /\ dk.status = "sleeping"
             /\ dk.cached # NoRecord
             /\ expired[dk.device])
          => (~dk.probed /\ Details(dk.record) = Details(dk.cached)))

\* C35: the status mapping gives, for a status that is one key of the map,
\* the value of that key (Discharging for DISCHRG, Charging for CHRG), and
\* for every status a value of the vocabulary: a value of the map or Unknown.
C35_StatusNormalized ==
    ups_status # NoStatus =>
        /\ \A i \in DOMAIN status_map :
               status_str = status_map[i].key =>
                   ups_status = status_map[i].value
        /\ ups_status \in
               {status_map[i].value : i \in DOMAIN status_map} \cup {Unknown}

\* C36: a block device whose name is in the ignore list, or whose type is
\* not disk, nvme or rom, is never the device a per-device command (power
\* state, statistics, smartctl) is awaited for, has no record among those
\* the fetch returns, and has no entry in any cache of the manager.
C36_SkippedUntouched ==
    \A d \in Devices :
        (\/ \E k \in DOMAIN split(ignore_disks) : split(ignore_disks)[k] = <<d>>
         \/ TypeOf[d] \notin {"disk", "nvme", "rom"}) =>
            /\ dpc \notin {"idle", "lsblk"} => Head(devices) # d
            /\ disk_info # NoRecord => disk_info.device # d
            /\ \A i \in DOMAIN disks : disks[i].device # d
            /\ dk # NoDiskEvent => dk.device # d
            /\ disk_full_info_cache[d] = NoRecord
            /\ disk_io_stats_cache[d] = NoStats
            /\ disk_status_cache[d] = "none"

\* A fetch after the first one read a listing whose first line is the
\* ignored sdb and whose second is sda, and appends the record of sda.
C36_IgnoredListedFirst ==
    /\ ~first_run
    /\ lsblk_output # NoListing
    /\ Len(lsblk_output) = 2
    /\ lsblk_output[1].name = "sdb"
    /\ \E k \in DOMAIN split(ignore_disks) : split(ignore_disks)[k] = <<"sdb">>
    /\ dk # NoDiskEvent
    /\ dk.device = "sda"
    /\ disks # <<>>

\* C37: a cycle whose probe succeeded and whose own connect failed returns
\* the offline default snapshot (status off), arms no monitor loop, leaves
\* the host marked online, requests no reload, and leaves the poll idle, so
\* that the next timer cycle connects again.
C37_ConnectFailureCycle ==
    [][(/\ ret["poll"] = "cycle"
        /\ ev'.connected = "failed"
        /\ ev'.cycle # NoCycle) =>
          /\ ev'.probe
          /\ ev'.cycle = OfflineSnapshot(FALSE)
          /\ ev'.armed = "none"
          /\ monitors' = monitors
          /\ ping_task' = ping_task
          /\ system_online'
          /\ ~ev'.reload
          /\ pc'["poll"] = "idle"]_vars

C39_HandleAndFlagAgree ==
    (\A p \in Procs : pc[p] = "idle") => (~ssh_closed => ssh # NoSession)

====
